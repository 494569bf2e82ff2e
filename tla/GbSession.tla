------------------------------ MODULE GbSession ------------------------------
(***************************************************************************)
(* The editing session over a resident Game Boy save (gb_session.c,        *)
(* pdna_gen12.c).  Every edit lands in the image in RAM first.  A commit   *)
(* either stages it (the journal records, the file is written once, at the *)
(* exit) or writes the whole image at once; whatever is refused or         *)
(* declined is undone by copying a second image, the baseline, back.  A    *)
(* Pokemon that goes to the Bank or comes from it is two writes of two     *)
(* files.                                                                  *)
(*                                                                         *)
(* A box is a list of Pokemon, a page (Pokedex, bag, fly destinations) is  *)
(* one bit of the image.  A box whose list the engine does not accept      *)
(* (Damaged) refuses every commit.  A write of the file is the one step    *)
(* that SaveFile shows it to be: confirmed, or reported as failed, and     *)
(* then it has or has not landed.                                          *)
(***************************************************************************)
EXTENDS Integers, Sequences, SequencesExt, FiniteSets

CONSTANTS Mons,                \* the Pokemon
          Boxes, Party,        \* the lists of the save; one of them is the party
          Room,                \* how many fit in each
          Damaged,             \* lists that fail the engine's structural gate
          InPlace, Drafted,    \* pages that edit the image, or a copy they then write
          Careless,            \* pages that leave a declined edit in the image
          MaxMoves, MaxMishaps \* bounds: what the user does, what goes wrong

ASSUME MonsAssumption == IsFiniteSet(Mons)
ASSUME BoxesAssumption == /\ IsFiniteSet(Boxes) /\ Party \in Boxes
                          /\ Room \in [Boxes -> Nat \ {0}]
                          /\ Damaged \subseteq Boxes
ASSUME PagesAssumption == Careless \subseteq InPlace
ASSUME BoundsAssumption == MaxMoves \in Nat /\ MaxMishaps \in Nat

VARIABLES disk,      \* what the .sav holds
          img,       \* g_ed->img
          pristine,  \* g_ed->pristine, the last state the session accepted
          bank,      \* how many Bank cells hold each Pokemon, on the card
          hold,      \* app_gb_hold_live: the journal is recording
          dirty,     \* app_gb_dirty: the exit will ask
          pc,        \* what the session is about to do
          job,       \* the write under way and the Pokemon that is crossing
          told,      \* the image the user was led to believe in
          unsure,    \* a write reported as failed may have landed
          twins,     \* Pokemon whose second half failed, was refused or was cut
          released,  \* Pokemon the user has released
          moves, mishaps

image   == <<img, pristine, told>>
history == <<unsure, twins, released>>
vars    == <<disk, image, bank, hold, dirty, pc, job, history, moves, mishaps>>

Pages  == InPlace \cup Drafted
Images == [box : [Boxes -> Seq(Mons)], set : SUBSET Pages]
Idle   == [why |-> "none"]
Jobs   == {Idle} \cup [why : {"edit", "exit"}]
                 \cup [why : {"up", "down"}, mon : Mons, box : Boxes]

Move   == moves < MaxMoves /\ moves' = moves + 1
Mishap == mishaps < MaxMishaps /\ mishaps' = mishaps + 1
Calm   == UNCHANGED mishaps

(* What the lists of the engine do.                                         *)
Slots(i, b)        == 1 .. Len(i.box[b])
Fits(i, b)         == Len(i.box[b]) < Room[b]
With(i, b, x)      == [i EXCEPT !.box[b] = Append(@, x)]
Without(i, b, k)   == [i EXCEPT !.box[b] = RemoveAt(@, k)]
MayLeave(i, b)     == b = Party => Len(i.box[b]) > 1
Accepts(b)         == b \notin Damaged
Moved(i, b, k, d)  == Without(With(i, d, i.box[b][k]), b, k)
Flipped(i, p)      == [i EXCEPT !.set = IF p \in @ THEN @ \ {p} ELSE @ \cup {p}]
Places(i, x)       == UNION {{<<b, k>> : k \in {n \in Slots(i, b) : i.box[b][n] = x}} :
                               b \in Boxes}
Copies(x)          == Cardinality(Places(disk, x)) + bank[x]

-----------------------------------------------------------------------------
(* The session opens over the bytes of the file; the journal records or it  *)
(* does not.                                                                *)
Lists  == [Boxes -> SeqOf(Mons, Cardinality(Mons))]
Starts == {i \in [box : Lists, set : {{}}] :
             /\ \A b \in Boxes : Len(i.box[b]) <= Room[b]
             /\ Len(i.box[Party]) > 0
             /\ \A x \in Mons : Cardinality(Places(i, x)) <= 1}

GbInit == /\ disk \in Starts
          /\ img = disk /\ pristine = disk /\ told = disk
          /\ bank = [x \in Mons |-> IF Places(disk, x) = {} THEN 1 ELSE 0]
          /\ hold \in BOOLEAN /\ dirty = FALSE
          /\ pc = "grid" /\ job = Idle
          /\ unsure = FALSE /\ twins = {} /\ released = {}
          /\ moves = 0 /\ mishaps = 0

Open == /\ pc = "off" /\ Move /\ Calm
        /\ img' = disk /\ pristine' = disk /\ told' = disk
        /\ hold' \in BOOLEAN /\ dirty' = FALSE /\ unsure' = FALSE
        /\ pc' = "grid"
        /\ UNCHANGED <<disk, bank, job, twins, released>>

(* gb_rollback: the baseline is copied back. *)
RollBack == /\ img' = pristine
            /\ UNCHANGED <<pristine, told, disk, bank, hold, dirty, job, unsure>>

(* gb_persist begins: the image goes to the card as a whole. *)
ToCard(j) == pc' = "write" /\ job' = j

(* gb_hold_commit: staged when the journal records the step, written at     *)
(* once when there is no journal, or none left to record this step.         *)
Commit(i) == /\ img' = i
             /\ \/ /\ hold
                   /\ pristine' = i /\ told' = i /\ dirty' = TRUE
                   /\ UNCHANGED <<hold, pc, job>>
                \/ /\ hold /\ hold' \in BOOLEAN /\ dirty' = TRUE
                   /\ ToCard([why |-> "edit"])
                   /\ UNCHANGED <<pristine, told>>
                \/ /\ ~hold
                   /\ ToCard([why |-> "edit"])
                   /\ UNCHANGED <<pristine, told, hold, dirty>>
             /\ UNCHANGED <<disk, bank, unsure>>

Refuse == RollBack /\ UNCHANGED pc

-----------------------------------------------------------------------------
(* A page that edits the image as the user goes along.  With the journal    *)
(* off it asks when it is left; a No copies the baseline back, but for the  *)
(* pages that forget to.                                                    *)
Decline(p) == IF p \in Careless
              THEN img' = Flipped(img, p)
                   /\ UNCHANGED <<pristine, told, disk, bank, hold, dirty, pc, job, unsure>>
              ELSE Refuse

EditInPlace(p) == /\ pc = "grid" /\ p \in InPlace /\ Move /\ Calm
                  /\ \/ Commit(Flipped(img, p))
                     \/ ~hold /\ Decline(p)
                     \/ p \notin Careless /\ Refuse       \* gbs_finish refuses
                  /\ UNCHANGED <<twins, released>>

(* A page that edits a draft, the bag or one Pokemon's record: what is      *)
(* refused half-way is copied back; a declined draft is forgotten.          *)
EditDraft(p) == /\ pc = "grid" /\ p \in Drafted /\ Move /\ Calm
                /\ Commit(Flipped(img, p)) \/ Refuse
                /\ UNCHANGED <<twins, released>>

(* Mutant: the half that was refused last leaves the other in the image.    *)
MoveMonMutant(b, k, d) ==
  /\ pc = "grid" /\ Move /\ Calm
  /\ b # d /\ Fits(img, d) /\ MayLeave(img, b)
  /\ IF Accepts(b) /\ Accepts(d) THEN Commit(Moved(img, b, k, d))
     ELSE IF Accepts(d)
          THEN /\ img' = With(img, d, img.box[b][k])
               /\ UNCHANGED <<pristine, told, disk, bank, hold, dirty, pc, job, unsure>>
          ELSE Refuse
  /\ UNCHANGED <<twins, released>>

(* gbs_move: the list that gains the Pokemon is committed first, then the   *)
(* one that loses it.  When the engine refuses the second, the first is in  *)
(* the image already, and the caller copies the baseline back.              *)
MoveMon(b, k, d) ==
  /\ pc = "grid" /\ Move /\ Calm
  /\ b # d /\ Fits(img, d) /\ MayLeave(img, b)
  /\ IF Accepts(b) /\ Accepts(d) THEN Commit(Moved(img, b, k, d)) ELSE Refuse
  /\ UNCHANGED <<twins, released>>

(* gbs_delete behind RELEASE.                                               *)
Release(b, k) ==
  /\ pc = "grid" /\ Move /\ Calm
  /\ MayLeave(img, b)
  /\ IF Accepts(b) THEN /\ Commit(Without(img, b, k))
                        /\ released' = released \cup {img.box[b][k]}
     ELSE Refuse /\ UNCHANGED released
  /\ UNCHANGED twins

-----------------------------------------------------------------------------
(* Mutant: the answer of the Bank's commit is not looked at.                *)
LiftToBankMutant(b, k) ==
  /\ pc = "grid" /\ Move
  /\ MayLeave(img, b)
  /\ LET x == img.box[b][k]
     IN /\ bank[x] < 2
        /\ pc' = "lifted" /\ job' = [why |-> "up", mon |-> x, box |-> b]
        /\ \/ /\ Calm /\ bank' = [bank EXCEPT ![x] = @ + 1] /\ UNCHANGED twins
           \/ /\ Mishap /\ \E n \in {0, 1} : bank' = [bank EXCEPT ![x] = @ + n]
              /\ twins' = twins \cup {x}
  /\ UNCHANGED <<disk, image, hold, dirty, unsure, released>>

(* Up: the Bank cell is committed first, then the hand is empty, and only   *)
(* then is the Pokemon deleted from the image and the image written.        *)
LiftToBank(b, k) ==
  /\ pc = "grid" /\ Move
  /\ MayLeave(img, b)
  /\ LET x == img.box[b][k]
     IN /\ bank[x] < 2
        /\ \/ /\ Calm
              /\ bank' = [bank EXCEPT ![x] = @ + 1]
              /\ pc' = "lifted" /\ job' = [why |-> "up", mon |-> x, box |-> b]
              /\ UNCHANGED twins
           \/ /\ Mishap
              /\ \E n \in {0, 1} : bank' = [bank EXCEPT ![x] = @ + n]
              /\ twins' = twins \cup {x}
              /\ UNCHANGED <<pc, job>>
  /\ UNCHANGED <<disk, image, hold, dirty, unsure, released>>

ReleaseUp ==
  /\ pc = "lifted" /\ Calm
  /\ LET b == job.box
         k == CHOOSE n \in Slots(img, b) : img.box[b][n] = job.mon
     IN IF Accepts(b)
        THEN /\ img' = Without(img, b, k) /\ pc' = "write"
             /\ UNCHANGED <<pristine, told, disk, bank, hold, dirty, job, unsure, twins>>
        ELSE /\ img' = pristine /\ pc' = "grid" /\ job' = Idle
             /\ twins' = twins \cup {job.mon}
             /\ UNCHANGED <<pristine, told, disk, bank, hold, dirty, unsure>>
  /\ UNCHANGED <<released, moves>>

(* Mutant: a box is not asked whether it has room.                          *)
BringDownMutant(x, b) ==
  /\ pc = "grid" /\ Move /\ Calm
  /\ bank[x] > 0
  /\ pc' = "confirm" /\ job' = [why |-> "down", mon |-> x, box |-> b]
  /\ UNCHANGED <<image, disk, bank, hold, dirty, history>>

(* Down: a full party first sends a member to a box with room, in the image  *)
(* only.                                                                    *)
BringDown(x, b) ==
  /\ pc = "grid" /\ Move /\ Calm
  /\ bank[x] > 0
  /\ \/ /\ Fits(img, b)
        /\ pc' = "confirm" /\ job' = [why |-> "down", mon |-> x, box |-> b]
        /\ UNCHANGED img
     \/ /\ ~Fits(img, b) /\ b = Party /\ MayLeave(img, b)
        /\ \E d \in {c \in Boxes \ {Party} : Fits(img, c)} :
             IF Accepts(Party) /\ Accepts(d)
             THEN /\ \E k \in Slots(img, Party) : img' = Moved(img, Party, k, d)
                  /\ pc' = "confirm" /\ job' = [why |-> "down", mon |-> x, box |-> b]
             ELSE img' = pristine /\ UNCHANGED <<pc, job>>
  /\ UNCHANGED <<pristine, told, disk, bank, hold, dirty, history>>

(* The one confirm of a drop into the game; gbs_insert; gb_persist.         *)
ConfirmDown ==
  /\ pc = "confirm" /\ Calm
  /\ \/ /\ Accepts(job.box)
        /\ img' = With(img, job.box, job.mon) /\ pc' = "write"
        /\ UNCHANGED job
     \/ img' = pristine /\ pc' = "grid" /\ job' = Idle
  /\ UNCHANGED <<pristine, told, disk, bank, hold, dirty, history, moves>>

(* bank_down_consume: the Bank cell goes only after the image is on the     *)
(* card, at once; it is kept when that write fails.                         *)
Consume ==
  /\ pc = "consume"
  /\ LET x == job.mon
     IN \/ Calm /\ bank' = [bank EXCEPT ![x] = @ - 1] /\ UNCHANGED twins
        \/ /\ Mishap /\ twins' = twins \cup {x}
           /\ \E n \in {0, 1} : bank' = [bank EXCEPT ![x] = @ - n]
  /\ pc' = "grid" /\ job' = Idle
  /\ UNCHANGED <<disk, image, hold, dirty, unsure, released, moves>>

-----------------------------------------------------------------------------
(* gb_persist is told that the card holds the image.                        *)
Persisted ==
  /\ pc = "write" /\ Calm
  /\ disk' = img /\ pristine' = img /\ told' = img
  /\ dirty' = FALSE /\ unsure' = FALSE
  /\ pc' = CASE job.why = "down" -> "consume"
             [] job.why = "exit" -> "off"
             [] OTHER -> "grid"
  /\ job' = IF job.why = "down" THEN job ELSE Idle
  /\ UNCHANGED <<img, bank, hold, twins, released, moves>>

(* Mutant: the failed write is taken off the exit's list.                   *)
PersistFailsMutant ==
  /\ pc = "write" /\ Mishap
  /\ disk' \in {disk, img}
  /\ img' = pristine /\ dirty' = FALSE
  /\ unsure' = (unsure \/ disk' # disk)
  /\ twins' = IF job.why \in {"up", "down"} THEN twins \cup {job.mon} ELSE twins
  /\ pc' = IF job.why = "exit" THEN "off" ELSE "grid"
  /\ job' = Idle
  /\ UNCHANGED <<pristine, told, bank, hold, released, moves>>

(* gb_persist is refused the backup or the write, or cannot tell where the  *)
(* bytes are: the baseline comes back, whatever the card holds by now.      *)
PersistFails ==
  /\ pc = "write" /\ Mishap
  /\ disk' \in {disk, img}
  /\ img' = pristine
  /\ unsure' = (unsure \/ disk' # disk)
  /\ twins' = IF job.why \in {"up", "down"} THEN twins \cup {job.mon} ELSE twins
  /\ pc' = IF job.why = "exit" THEN "off" ELSE "grid"
  /\ job' = Idle
  /\ UNCHANGED <<pristine, told, bank, hold, dirty, released, moves>>

(* gb_flush_on_exit: nothing staged, or the one question of the exit.  A No *)
(* re-reads the file; the session ends whether that read works or not.      *)
Exit ==
  /\ pc = "grid" /\ Move /\ Calm
  /\ \/ ~dirty /\ pc' = "off" /\ UNCHANGED <<job, img, dirty>>
     \/ dirty /\ ToCard([why |-> "exit"]) /\ UNCHANGED <<img, dirty>>
     \/ /\ dirty /\ pc' = "off" /\ dirty' = FALSE /\ img' = disk
        /\ UNCHANGED job
  /\ UNCHANGED <<pristine, told, disk, bank, hold, history>>

(* The power goes: the image in RAM is gone, a write may have landed.       *)
PowerCut ==
  /\ pc # "off" /\ Mishap
  /\ disk' \in (IF pc = "write" THEN {disk, img} ELSE {disk})
  /\ twins' = IF pc \in {"lifted", "write", "consume"} /\ job.why \in {"up", "down"}
              THEN twins \cup {job.mon} ELSE twins
  /\ pc' = "off" /\ job' = Idle
  /\ UNCHANGED <<image, bank, hold, dirty, unsure, released, moves>>

GbNext ==
  \/ Open \/ ReleaseUp \/ ConfirmDown \/ Consume
  \/ Persisted \/ PersistFails \/ Exit \/ PowerCut
  \/ \E p \in Pages : EditInPlace(p) \/ EditDraft(p)
  \/ \E b \in Boxes : \E k \in Slots(img, b) :
       Release(b, k) \/ LiftToBank(b, k) \/ \E d \in Boxes : MoveMon(b, k, d)
  \/ \E x \in Mons, b \in Boxes : BringDown(x, b)

GbSpec == GbInit /\ [][GbNext]_vars

-----------------------------------------------------------------------------
(* Every image keeps its lists within their capacity, and a write under way *)
(* is one that something asked for.                                         *)
GbTypeOK ==
  /\ \A i \in {disk, img, pristine, told} :
       /\ i \in Images
       /\ \A b \in Boxes : Len(i.box[b]) <= Room[b]
  /\ bank \in [Mons -> 0 .. 2]
  /\ hold \in BOOLEAN /\ dirty \in BOOLEAN /\ unsure \in BOOLEAN
  /\ pc \in {"off", "grid", "lifted", "confirm", "write", "consume"}
  /\ job \in Jobs /\ (job = Idle <=> pc \in {"off", "grid"})
  /\ twins \subseteq Mons /\ released \subseteq Mons
  /\ moves \in 0 .. MaxMoves /\ mishaps \in 0 .. MaxMishaps

Careful    == Pages \ Careless
Same(i, j) == i.box = j.box /\ i.set \cap Careful = j.set \cap Careful

(* Back on the grid, the image is what the user was led to believe in: no   *)
(* half of a refused move, no deposit for a drop that was declined, no edit *)
(* of a failed write is left in it for a later write to carry along         *)
(* (gb_rollback and its callers; the careless pages are left out).          *)
SessionAsTold == pc = "grid" => Same(img, told) /\ Same(img, pristine)

(* When the exit would not ask, the file holds what the grid shows, unless  *)
(* a write that was reported as failed may have landed (app_gb_dirty,       *)
(* gb_hold_commit, gb_persist).                                             *)
NothingUnsavedUnasked == pc = "grid" /\ ~dirty => Same(disk, img) \/ unsure

(* At every instant each Pokemon the user has not released is in the save   *)
(* or in the Bank, on the card; and in between operations it is there once, *)
(* unless the second half of a crossing failed, was refused or was cut off  *)
(* (drop_held_up, gb_release_up_hook, gb_accept_down_hook,                  *)
(* bank_down_consume).                                                      *)
OneOfEach == \A x \in Mons :
  /\ x \notin released => Copies(x) >= 1
  /\ pc \in {"grid", "off"} /\ x \notin twins => Copies(x) <= 1
=============================================================================
