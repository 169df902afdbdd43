----------------------------- MODULE ShowOverlap -----------------------------
(***************************************************************************)
(* The timetable of one screen: the rows of shows with its screen_id, the  *)
(* trigger prevent_overlapping_shows and the constraint                    *)
(* unique_screen_showtime that guard it (psql.sql:82-135), and the         *)
(* endpoints that write it.  createShow and editShow are one statement,    *)
(* createMultipleShows is a transaction with a savepoint per row.  The     *)
(* trigger sees the committed rows and those of its own transaction; the   *)
(* unique index also sees, and waits for, those of the others.             *)
(*                                                                         *)
(* The day has SlotsPerDay instants; a show that ends before it starts     *)
(* ends on the next day, and no show is empty.  The trigger looks at one   *)
(* screen and so does the model: giving a show another screen_id is, here, *)
(* deleting it.                                                            *)
(***************************************************************************)
EXTENDS Naturals

CONSTANTS Ids,          \* shows.id
          Writers,      \* connections that write shows at the same time
          DayCount, SlotsPerDay,
          NoSlot        \* the id is not on the screen

Slot == {x \in [date : 0 .. DayCount - 1, start : 0 .. SlotsPerDay - 1, end : 0 .. SlotsPerDay - 1] :
           x.start # x.end}

ASSUME OverlapAssumption == /\ DayCount \in Nat \ {0} /\ SlotsPerDay \in Nat \ {0}
                            /\ NoSlot \notin Slot

VARIABLES shows,        \* id -> its committed date and times
          tx,           \* writer -> its transaction: the kind and the rows it has written
          raced         \* history: pairs of rows written in transactions that overlapped

screenVars == <<shows, tx, raced>>

NoRows == [i \in Ids |-> NoSlot]
NoTx == [kind |-> "none", rows |-> NoRows]

ScreenInit == shows = NoRows /\ tx = [w \in Writers |-> NoTx] /\ raced = {}

-----------------------------------------------------------------------------
(* The trigger. *)

CrossesMidnight(x) == x.end < x.start

(* A mistake DaytimeDisjoint catches: a show inside the new one is missed. *)
ClashesAtStart(new, old) ==
  old.date = new.date /\ old.start <= new.start /\ new.start < old.end

Clashes(new, old) ==
  /\ old.date = new.date
  /\ \/ /\ ~CrossesMidnight(new) /\ ~CrossesMidnight(old)
        /\ new.start < old.end /\ old.start < new.end
     \/ /\ CrossesMidnight(new) /\ ~CrossesMidnight(old)
        /\ old.start >= new.start \/ old.end <= new.end
     \/ /\ ~CrossesMidnight(new) /\ CrossesMidnight(old)
        /\ new.start >= old.start \/ new.end <= old.end
     \/ CrossesMidnight(new) /\ CrossesMidnight(old)

Sees(w) == [i \in Ids |-> IF tx[w].rows[i] # NoSlot THEN tx[w].rows[i] ELSE shows[i]]

(* A mistake RowsCanBeUpdated catches: a batch does not see its own rows.  *)
TriggerAcceptsCommitted(w, i, x) ==
  \A j \in Ids \ {i} : shows[j] # NoSlot => ~Clashes(x, shows[j])

TriggerAccepts(w, i, x) ==
  \A j \in Ids \ {i} : Sees(w)[j] # NoSlot => ~Clashes(x, Sees(w)[j])

(* The index: no other row has the key, and no other transaction has       *)
(* written, or overwritten, a row that has it.                             *)
SameKey(x, y) == y # NoSlot /\ y.date = x.date /\ y.start = x.start

KeyFree(w, i, x) ==
  /\ \A j \in Ids \ {i} : ~SameKey(x, Sees(w)[j])
  /\ \A v \in Writers \ {w}, j \in Ids : tx[v].rows[j] # NoSlot =>
       ~SameKey(x, tx[v].rows[j]) /\ ~SameKey(x, shows[j])

RowUnlocked(w, i) == \A v \in Writers \ {w} : tx[v].rows[i] = NoSlot

Write(w, i, x, kind) ==
  /\ RowUnlocked(w, i) /\ TriggerAccepts(w, i, x) /\ KeyFree(w, i, x)
  /\ tx' = [tx EXCEPT ![w] = [kind |-> kind, rows |-> [@.rows EXCEPT ![i] = x]]]
  /\ raced' = raced \cup {{i, j} : j \in {k \in Ids : ~RowUnlocked(w, k)}}
  /\ UNCHANGED shows

-----------------------------------------------------------------------------
CreateShow(w, i, x) == tx[w].kind = "none" /\ shows[i] = NoSlot /\ Write(w, i, x, "one")

EditShow(w, i, x) == tx[w].kind = "none" /\ shows[i] # NoSlot /\ Write(w, i, x, "one")

(* A row that is refused is skipped, and the batch goes on. *)
CreateMultipleShows(w, i, x) ==
  /\ tx[w].kind \in {"none", "many"}
  /\ Sees(w)[i] = NoSlot
  /\ Write(w, i, x, "many")

EndTx(w) == tx' = [tx EXCEPT ![w] = NoTx]

Commit(w) == tx[w].kind # "none" /\ shows' = Sees(w) /\ EndTx(w) /\ UNCHANGED raced

(* A row that leaves the screen, or never got there, races no more. *)
Forget(I) == raced' = {pair \in raced : pair \cap I = {}}

Rollback(w) == /\ tx[w].kind # "none" /\ EndTx(w)
               /\ Forget({i \in Ids : tx[w].rows[i] # NoSlot /\ shows[i] = NoSlot})
               /\ UNCHANGED shows

(* deleteShow, deleteMultipleShows, and a move to another screen. *)
DeleteShow(i) ==
  /\ shows[i] # NoSlot
  /\ \A w \in Writers : tx[w].rows[i] = NoSlot
  /\ shows' = [shows EXCEPT ![i] = NoSlot]
  /\ Forget({i})
  /\ UNCHANGED tx

ScreenNext == \/ \E w \in Writers : \/ Commit(w) \/ Rollback(w)
                                    \/ \E i \in Ids, x \in Slot : \/ CreateShow(w, i, x)
                                                                  \/ EditShow(w, i, x)
                                                                  \/ CreateMultipleShows(w, i, x)
              \/ \E i \in Ids : DeleteShow(i)

ScreenSpec == ScreenInit /\ [][ScreenNext]_screenVars

-----------------------------------------------------------------------------
(* When a show occupies the screen, in instants since the first day.       *)
From(x) == x.date * SlotsPerDay + x.start
Until(x) == x.date * SlotsPerDay + x.end + (IF CrossesMidnight(x) THEN SlotsPerDay ELSE 0)
Overlap(x, y) == From(x) < Until(y) /\ From(y) < Until(x)

OnScreen == {i \in Ids : shows[i] # NoSlot}

(* Rows keep their types, and a transaction without a kind has no rows. *)
ScreenTypeOK == /\ shows \in [Ids -> Slot \cup {NoSlot}]
                /\ tx \in [Writers -> [kind : {"none", "one", "many"},
                                       rows : [Ids -> Slot \cup {NoSlot}]]]
                /\ \A w \in Writers : tx[w].kind = "none" => tx[w].rows = NoRows
                /\ raced \subseteq {{i, j} : i, j \in Ids}

(* Two shows that both end on their own day overlap only if they were      *)
(* written in transactions that overlapped, neither seeing the other's     *)
(* row, whatever is created, edited or deleted around them                 *)
(* (psql.sql:91-128).                                                      *)
DaytimeDisjoint ==
  \A i, j \in OnScreen :
    /\ i # j /\ {i, j} \notin raced
    /\ ~CrossesMidnight(shows[i]) /\ ~CrossesMidnight(shows[j])
    => ~Overlap(shows[i], shows[j])

(* The trigger, also run by every UPDATE of a status, accepts each row as  *)
(* it stands, again unless two transactions raced: one pair of rows it     *)
(* refuses would stop updateShowStatuses for all the shows, and cancelShow *)
(* for the two (shows.Controller.js:485-511, 559).                         *)
RowsCanBeUpdated ==
  \A i, j \in OnScreen : i # j /\ {i, j} \notin raced => ~Clashes(shows[i], shows[j])
=============================================================================
