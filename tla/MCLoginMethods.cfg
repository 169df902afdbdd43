SPECIFICATION Spec
CONSTANTS
  Requests = {r1, r2}
  Google = google
  Providers = {google, github}
  NoProvider = NoProvider
  NoAccount = NoAccount
INVARIANTS PasswordlessColumnsAgree KeepsALoginMethod
