--------------------------- MODULE MakerOrderProofs ---------------------------
(***************************************************************************)
(* The safety of one order of the maker daemon, for any set of proposals,  *)
(* any timing, and any number of crashes, thrown passes, unanswered        *)
(* requests and late deliveries: at most one terminal proof leaves the     *)
(* process, the state file holds what settles every escrow that is or can  *)
(* be open, and a retired order's listing stays closed.                    *)
(***************************************************************************)
EXTENDS MakerOrder, ProcessLease, FiniteSetTheorems, TLAPS

\* The terminal decision a record has taken, as the request that states it.
States(rec, req) ==
    \/ rec.fill # Null /\ req = Fill(rec.fill)
    \/ rec.cancel /\ req = Cancel

\* A pass that is about to send a terminal proof has it on disk, and one that
\* is about to take the decision finds none there.
PassAgrees ==
    /\ pass.at # "idle" => disk # Null
    /\ pass.at = "fill" => disk.fill # Null /\ pass.fill = disk.fill
    /\ pass.at \in {"cancel", "cancel or gone"} => disk.cancel
    /\ pass.at \in {"intents", "sign"} => disk.fill = Null /\ ~disk.cancel

\* A record states one decision, and what was published is that decision.
OneOnDisk == disk # Null => ~(disk.fill # Null /\ disk.cancel)

PublishedAgrees ==
    published # {} =>
        \E req : published = {req} /\ (disk # Null => States(disk, req))

TypesOK == now \in Int /\ minted \in Int /\ disk \in Records \cup {Null}

IInv == TypesOK /\ PassAgrees /\ OneOnDisk /\ PublishedAgrees

-----------------------------------------------------------------------------
(* What the record writes do.                                              *)

\* T is S with the same decision.
SameDecision(S, T) == T \in Records /\ T.fill = S.fill /\ T.cancel = S.cancel

LEMMA ObservedKeeps ==
    ASSUME NEW rec \in Records, NEW row
    PROVE  SameDecision(rec, Observed(rec, row))
BY DEF Observed, SameDecision, Records

LEMMA DeselectedKeeps ==
    ASSUME NEW rec \in Records
    PROVE  SameDecision(rec, Deselected(rec))
BY DEF Deselected, SameDecision, Records

LEMMA CancelSignedIs ==
    ASSUME NEW rec \in Records
    PROVE  /\ CancelSigned(rec) \in Records
           /\ CancelSigned(rec).fill = rec.fill
           /\ CancelSigned(rec).cancel
BY DEF CancelSigned, Records

LEMMA FillSignedIs ==
    ASSUME NEW rec \in Records, now \in Int, OrderAssumption
    PROVE  /\ FillOf(rec) \in Fills
           /\ FillSigned(rec) \in Records
           /\ FillSigned(rec).fill = FillOf(rec)
           /\ FillSigned(rec).cancel = rec.cancel
<1>1. respondBy \in Int
  BY OrderAssumption DEF respondBy
<1>2. FillOf(rec) \in Fills
  BY <1>1 DEF FillOf, Fills, Records
<1> QED BY <1>2 DEF FillSigned, Records

-----------------------------------------------------------------------------
(* The invariant is inductive.                                             *)

LEMMA InitInv == Init => IInv
<1> SUFFICES ASSUME Init PROVE IInv
  OBVIOUS
<1>1. NewRecord \in Records /\ NewRecord.fill = Null /\ ~NewRecord.cancel
  BY DEF NewRecord, Records
<1>2. TypesOK
  BY <1>1 DEF Init, TypesOK
<1>3. PassAgrees
  BY <1>1, NullAssumption DEF Init, PassAgrees, At, Idle
<1>4. OneOnDisk /\ PublishedAgrees
  BY <1>1 DEF Init, OneOnDisk, PublishedAgrees
<1> QED BY <1>2, <1>3, <1>4 DEF IInv

\* A step that publishes nothing, keeps the decision on disk or gives the
\* record up, and ends the pass, goes on to where no proof is sent, or is
\* about to send the decision that is on disk.
LEMMA QuietStep ==
    ASSUME IInv, published' = published, now' \in Int, minted' \in Int,
           disk' = Null \/ (disk # Null /\ SameDecision(disk, disk')),
           \/ pass'.at = "idle"
           \/ disk' # Null /\ pass'.at \in {"read", "create", "lock"}
           \/ /\ disk' # Null /\ pass'.at = "fill"
              /\ disk'.fill # Null /\ pass'.fill = disk'.fill
           \/ disk' # Null /\ pass'.at = "cancel" /\ disk'.cancel
    PROVE  IInv'
<1>1. TypesOK'
  BY DEF IInv, TypesOK, SameDecision
<1>2. PassAgrees'
  BY DEF PassAgrees
<1>3. OneOnDisk'
  BY DEF IInv, OneOnDisk, SameDecision
<1>4. PublishedAgrees'
  BY DEF IInv, PublishedAgrees, SameDecision, States
<1> QED BY <1>1, <1>2, <1>3, <1>4 DEF IInv

\* A record that has taken no decision takes one.
LEMMA DecidingStep ==
    ASSUME IInv, disk # Null, disk.fill = Null, ~disk.cancel,
           published' = published, now' = now, minted' \in Int,
           disk' \in Records,
           \/ /\ disk'.fill = Null /\ disk'.cancel
              /\ pass'.at \in {"cancel", "cancel or gone"}
           \/ /\ disk'.fill # Null /\ ~disk'.cancel
              /\ pass'.at = "fill" /\ pass'.fill = disk'.fill
           \/ /\ disk'.fill = Null /\ ~disk'.cancel
              /\ pass'.at \in {"idle", "intents", "sign"}
    PROVE  IInv'
<1>1. TypesOK'
  BY DEF IInv, TypesOK
<1>2. PassAgrees'
  BY NullAssumption DEF PassAgrees
<1>3. OneOnDisk'
  BY DEF OneOnDisk
<1>4. published = {}
  BY DEF IInv, PublishedAgrees, States
<1>5. PublishedAgrees'
  BY <1>4 DEF PublishedAgrees
<1> QED BY <1>1, <1>2, <1>3, <1>5 DEF IInv

LEMMA MakerReadsInv ==
    ASSUME IInv, NEW bookUp \in BOOLEAN, MakerReads(bookUp)
    PROVE  IInv'
<1>1. disk # Null /\ disk \in Records /\ pass.at = "idle"
  BY DEF IInv, TypesOK, MakerReads
<1>2. SameDecision(disk, disk)
  BY <1>1 DEF SameDecision
<1>3. disk' # Null /\ SameDecision(disk, disk')
  BY <1>1, <1>2, ObservedKeeps, NullAssumption DEF MakerReads, persist, SameDecision
<1>4. pass'.at \in {"idle", "read"}
  BY <1>1 DEF MakerReads, At, Idle
<1>5. published' = published /\ now' = now /\ minted' = minted
  BY DEF MakerReads
<1> QED BY <1>1, <1>3, <1>4, <1>5, QuietStep DEF IInv, TypesOK

LEMMA DecideIs ==
    ASSUME NEW x
    PROVE  P!decide(x) \in P!Decisions
BY DEF P!decide, P!Decisions

\* What a pass branches to agrees with the decision on disk.
LEMMA BranchAgrees ==
    ASSUME NEW rec, NEW iState, NEW rStatus, NEW reprice,
           NEW b, b = Branch(rec, iState, rStatus, reprice)
    PROVE  /\ b = "cancel" => rec.cancel
           /\ b = "fill" => rec.fill # Null
           /\ b \in {"giveUp", "select"} => rec.fill = Null /\ ~rec.cancel
           /\ b \notin {"intents", "sign", "cancel or gone", "read"}
BY DecideIs DEF Branch, P!Decisions

LEMMA MakerDecidesInv ==
    ASSUME IInv, NEW iOk, NEW rStatus, NEW reprice,
           MakerDecides(iOk, rStatus, reprice)
    PROVE  IInv'
<1> DEFINE b == Branch(disk, IF iOk THEN iStateOf(disk) ELSE Null, rStatus, reprice)
<1>1. disk # Null /\ disk \in Records /\ pass.at = "read"
  BY DEF IInv, TypesOK, PassAgrees, MakerDecides
<1>2. /\ b = "cancel" => disk.cancel
      /\ b = "fill" => disk.fill # Null
      /\ b \in {"giveUp", "select"} => disk.fill = Null /\ ~disk.cancel
  BY BranchAgrees
<1>3. /\ published' = published /\ now' = now /\ minted' = minted
      /\ now' \in Int /\ minted' \in Int
  BY DEF MakerDecides, IInv, TypesOK
<1>4. SameDecision(disk, disk)
  BY <1>1 DEF SameDecision
<1>5. CASE b = "giveUp"
  <2>1. disk' = CancelSigned(disk) /\ pass' = At("cancel or gone")
    BY <1>5 DEF MakerDecides, persist
  <2>2. /\ disk' \in Records /\ disk'.fill = Null /\ disk'.cancel
        /\ pass'.at = "cancel or gone"
    BY <1>1, <1>2, <1>5, <2>1, CancelSignedIs DEF At, Idle
  <2> QED BY <1>1, <1>2, <1>3, <1>5, <2>2, DecidingStep
<1>6. CASE b = "select"
  <2>1. disk' = Deselected(disk) /\ pass'.at \in {"intents", "sign"}
    BY <1>6 DEF MakerDecides, persist, At, Idle
  <2>2. disk' \in Records /\ disk'.fill = Null /\ ~disk'.cancel
    BY <1>1, <1>2, <1>6, <2>1, DeselectedKeeps DEF SameDecision
  <2> QED BY <1>1, <1>2, <1>3, <1>6, <2>1, <2>2, DecidingStep
<1>7. CASE b \in {"retire", "finish", "abort"}
  <2>1. disk' = Null /\ pass'.at = "idle"
    BY <1>7 DEF MakerDecides, retire, Idle
  <2> QED BY <1>3, <2>1, QuietStep
<1>8. CASE b \notin {"giveUp", "select", "retire", "finish", "abort"}
  <2>1. disk' = disk
    BY <1>8 DEF MakerDecides, persist
  <2>2. CASE b = "fill"
    <3>1. pass'.at = "fill" /\ pass'.fill = disk.fill
      BY <2>2 DEF MakerDecides, At, Idle
    <3> QED BY <1>1, <1>2, <1>3, <1>4, <2>1, <2>2, <3>1, QuietStep
  <2>3. CASE b = "cancel"
    <3>1. pass'.at = "cancel"
      BY <2>3 DEF MakerDecides, At, Idle
    <3> QED BY <1>1, <1>2, <1>3, <1>4, <2>1, <2>3, <3>1, QuietStep
  <2>4. CASE b \notin {"fill", "cancel"}
    <3>1. pass'.at \in {"idle", "create", "lock"}
      BY <1>8, <2>4 DEF MakerDecides, At, Idle
    <3> QED BY <1>1, <1>3, <1>4, <2>1, <3>1, QuietStep
  <2> QED BY <2>2, <2>3, <2>4
<1> QED BY <1>5, <1>6, <1>7, <1>8

LEMMA MakerSelectsInv ==
    ASSUME IInv, MakerSelects
    PROVE  IInv'
<1>1. /\ disk # Null /\ disk \in Records /\ pass.at = "intents"
      /\ disk.fill = Null /\ ~disk.cancel /\ now \in Int /\ minted \in Int
  BY DEF IInv, TypesOK, PassAgrees, MakerSelects
<1>2. published' = published /\ now' = now
  BY DEF MakerSelects
<1>3. /\ disk' \in Records /\ disk'.fill = Null /\ ~disk'.cancel
      /\ minted' \in Int /\ pass'.at \in {"idle", "sign"}
  <2>1. CASE UNCHANGED <<disk, minted>> /\ pass' = Idle
    BY <1>1, <2>1 DEF Idle
  <2>2. CASE \E i \in Earliest :
               /\ minted' = minted + 1
               /\ disk' = [disk EXCEPT !.sel = i, !.secret = minted + 1, !.selectedAt = now]
               /\ pass' = At("sign")
    <3>1. PICK i \in Intents :
               /\ minted' = minted + 1
               /\ disk' = [disk EXCEPT !.sel = i, !.secret = minted + 1, !.selectedAt = now]
               /\ pass' = At("sign")
      BY <2>2 DEF Earliest, Candidates
    <3>2. minted + 1 \in Int
      BY <1>1
    <3>3. disk' \in Records /\ disk'.fill = disk.fill /\ disk'.cancel = disk.cancel
      BY <1>1, <3>1, <3>2 DEF Records
    <3> QED BY <1>1, <3>1, <3>2, <3>3 DEF At, Idle
  <2> QED BY <2>1, <2>2 DEF MakerSelects, persist
<1> QED BY <1>1, <1>2, <1>3, DecidingStep

LEMMA MakerSignsInv ==
    ASSUME IInv, MakerSigns
    PROVE  IInv'
<1>1. /\ disk # Null /\ disk \in Records /\ pass.at = "sign"
      /\ disk.fill = Null /\ ~disk.cancel /\ now \in Int /\ minted \in Int
  BY DEF IInv, TypesOK, PassAgrees, MakerSigns
<1>2. published' = published /\ now' = now /\ minted' \in Int
  BY <1>1 DEF MakerSigns
<1>3. CASE disk' = disk /\ pass' = Idle
  BY <1>1, <1>2, <1>3, DecidingStep DEF Idle
<1>4. CASE disk' = CancelSigned(disk) /\ pass' = At("cancel")
  <2>1. /\ disk' \in Records /\ disk'.fill = Null /\ disk'.cancel
        /\ pass'.at = "cancel"
    BY <1>1, <1>4, CancelSignedIs DEF At, Idle
  <2> QED BY <1>1, <1>2, <2>1, DecidingStep
<1>5. CASE /\ disk' = FillSigned(disk)
           /\ pass' = [At("fill") EXCEPT !.fill = FillOf(disk)]
  <2>1. /\ disk' \in Records /\ disk'.fill = FillOf(disk) /\ ~disk'.cancel
        /\ FillOf(disk) \in Fills
    BY <1>1, <1>5, FillSignedIs, OrderAssumption
  <2>2. pass'.at = "fill" /\ pass'.fill = FillOf(disk)
    BY <1>5 DEF At, Idle
  <2>3. disk'.fill # Null
    BY <2>1, NullAssumption
  <2> QED BY <1>1, <1>2, <2>1, <2>2, <2>3, DecidingStep
<1> QED BY <1>3, <1>4, <1>5 DEF MakerSigns, persist

\* What the record of a lock keeps.
LEMMA LockSentKeeps ==
    ASSUME NEW rec \in Records, NEW row, now \in Int
    PROVE  /\ SameDecision(rec, [rec EXCEPT !.lockSentAt = now])
           /\ SameDecision(rec, [Observed(rec, row) EXCEPT !.lockSentAt = now])
<1>1. SameDecision(rec, Observed(rec, row))
  BY ObservedKeeps
<1>2. SameDecision(rec, [rec EXCEPT !.lockSentAt = now])
  BY DEF SameDecision, Records
<1>3. SameDecision(rec, [Observed(rec, row) EXCEPT !.lockSentAt = now])
  BY <1>1 DEF SameDecision, Records
<1> QED BY <1>2, <1>3

LEMMA MakerLocksInv ==
    ASSUME IInv, NEW bookUp \in BOOLEAN, MakerLocks(bookUp)
    PROVE  IInv'
<1> DEFINE row == Swept(book)
           seen == IF bookUp THEN Observed(disk, row) ELSE disk
<1>1. disk # Null /\ disk \in Records /\ now \in Int /\ minted \in Int
  BY DEF IInv, TypesOK, PassAgrees, MakerLocks
<1>2. /\ published' = published /\ now' \in Int /\ minted' \in Int
      /\ pass'.at = "idle"
  BY <1>1 DEF MakerLocks, Idle
<1>3. SameDecision(disk, disk)
  BY <1>1 DEF SameDecision
<1>4. /\ SameDecision(disk, seen)
      /\ SameDecision(disk, [seen EXCEPT !.lockSentAt = now])
  BY <1>1, <1>3, ObservedKeeps, LockSentKeeps
<1>5. \/ disk' = disk
      \/ disk' = seen
      \/ disk' = [seen EXCEPT !.lockSentAt = now]
  BY DEF MakerLocks, persist
<1> QED BY <1>1, <1>2, <1>3, <1>4, <1>5, QuietStep

\* What a pass asks of the book is the decision on disk.
LEMMA RequestStates ==
    ASSUME IInv, Requesting
    PROVE  /\ disk # Null /\ disk \in Records
           /\ \/ pass.at = "create" /\ PublishedWith(Request) = published
              \/ /\ pass.at # "create"
                 /\ PublishedWith(Request) = published \cup {Request}
                 /\ States(disk, Request)
<1>1. disk # Null /\ disk \in Records
  BY DEF IInv, TypesOK, PassAgrees, Requesting
<1>2. CASE pass.at = "create"
  BY <1>1, <1>2 DEF Request, PublishedWith, Create
<1>3. CASE pass.at \in {"cancel", "cancel or gone"}
  <2>1. Request = Cancel
    BY <1>3 DEF Request
  <2>2. PublishedWith(Cancel) = published \cup {Cancel}
    BY DEF PublishedWith, Cancel
  <2>3. disk.cancel
    BY <1>3 DEF IInv, PassAgrees
  <2> QED BY <1>1, <1>3, <2>1, <2>2, <2>3 DEF States
<1>4. CASE pass.at = "fill"
  <2>1. disk.fill # Null /\ pass.fill = disk.fill
    BY <1>4 DEF IInv, PassAgrees
  <2>2. Request = Fill(disk.fill)
    BY <1>4, <2>1 DEF Request
  <2>3. PublishedWith(Fill(disk.fill)) = published \cup {Fill(disk.fill)}
    BY DEF PublishedWith, Fill
  <2> QED BY <1>1, <1>4, <2>1, <2>2, <2>3 DEF States
<1> QED BY <1>2, <1>3, <1>4 DEF Requesting

\* A record states one request only.
LEMMA StatesOnce ==
    ASSUME OneOnDisk, disk # Null, NEW r, NEW q, States(disk, r), States(disk, q)
    PROVE  r = q
BY DEF OneOnDisk, States

\* A step that sends what the record states, and ends the pass.
LEMMA SendingStep ==
    ASSUME IInv, Requesting, published' = PublishedWith(Request),
           now' = now, minted' = minted, pass' = Idle,
           disk' = Null \/ SameDecision(disk, disk')
    PROVE  IInv'
<1>1. disk # Null
  BY RequestStates
<1>2. now' \in Int /\ minted' \in Int /\ pass'.at = "idle"
  BY DEF IInv, TypesOK, Idle
<1>3. CASE PublishedWith(Request) = published
  BY <1>1, <1>2, <1>3, QuietStep
<1>4. CASE /\ PublishedWith(Request) = published \cup {Request}
           /\ States(disk, Request)
  <2>1. PICK req : req = Request
    OBVIOUS
  <2>2. published' = published \cup {req} /\ States(disk, req)
    BY <1>4, <2>1
  <2>3. published' = {req}
    <3>1. CASE published = {}
      BY <2>2, <3>1
    <3>2. CASE published # {}
      <4>1. PICK q : published = {q} /\ States(disk, q)
        BY <1>1, <3>2 DEF IInv, PublishedAgrees
      <4>2. q = req
        BY <1>1, <2>2, <4>1, StatesOnce DEF IInv
      <4> QED BY <2>2, <4>1, <4>2
    <3> QED BY <3>1, <3>2
  <2>4. disk' # Null => States(disk', req)
    BY <2>2 DEF States, SameDecision
  <2>5. PublishedAgrees'
    BY <2>3, <2>4 DEF PublishedAgrees
  <2>6. TypesOK'
    BY <1>2 DEF IInv, TypesOK, SameDecision
  <2>7. PassAgrees'
    BY <1>2 DEF PassAgrees
  <2>8. OneOnDisk'
    BY <1>1 DEF IInv, OneOnDisk, SameDecision
  <2> QED BY <2>5, <2>6, <2>7, <2>8 DEF IInv
<1> QED BY <1>3, <1>4, RequestStates

LEMMA RequestAnsweredInv ==
    ASSUME IInv, RequestAnswered
    PROVE  IInv'
<1>1. /\ Requesting /\ published' = PublishedWith(Request)
      /\ now' = now /\ minted' = minted /\ pass' = Idle
  BY DEF RequestAnswered
<1>2. disk # Null /\ disk \in Records
  BY <1>1, RequestStates
<1>3. SameDecision(disk, disk)
  BY <1>2 DEF SameDecision
<1>4. pass.at = "fill" => SameDecision(disk, [disk EXCEPT !.fill = pass.fill])
  BY <1>2 DEF IInv, PassAgrees, SameDecision, Records
<1>5. \A row : pass.at = "fill" =>
          SameDecision(disk, Observed([disk EXCEPT !.fill = pass.fill], row))
  <2> SUFFICES ASSUME NEW row, pass.at = "fill"
               PROVE  SameDecision(disk, Observed([disk EXCEPT !.fill = pass.fill], row))
    OBVIOUS
  <2> DEFINE rec == [disk EXCEPT !.fill = pass.fill]
  <2>1. rec \in Records /\ rec.fill = disk.fill /\ rec.cancel = disk.cancel
    BY <1>4 DEF SameDecision
  <2>2. SameDecision(rec, Observed(rec, row))
    BY <2>1, ObservedKeeps
  <2> QED BY <2>1, <2>2 DEF SameDecision
<1>6. disk' = Null \/ SameDecision(disk, disk')
  BY <1>1, <1>3, <1>5 DEF RequestAnswered, persist, retire
<1> QED BY <1>1, <1>6, SendingStep

LEMMA RequestUnansweredInv ==
    ASSUME IInv, RequestUnanswered
    PROVE  IInv'
<1>1. /\ Requesting /\ published' = PublishedWith(Request)
      /\ now' = now /\ minted' = minted /\ pass' = Idle /\ disk' = disk
  BY DEF RequestUnanswered
<1>2. SameDecision(disk, disk)
  BY <1>1, RequestStates DEF SameDecision
<1> QED BY <1>1, <1>2, SendingStep

\* A step that leaves the record and what was published alone, and ends the
\* pass or leaves it where it is.
LEMMA ElsewhereStep ==
    ASSUME IInv, UNCHANGED <<disk, published, minted>>, now' \in Int,
           pass' = pass \/ pass' = Idle
    PROVE  IInv'
<1>1. TypesOK' /\ OneOnDisk' /\ PublishedAgrees'
  BY DEF IInv, TypesOK, OneOnDisk, PublishedAgrees, States
<1>2. PassAgrees'
  <2>1. disk' = disk
    OBVIOUS
  <2>2. CASE pass' = pass
    BY <2>1, <2>2 DEF IInv, PassAgrees
  <2>3. CASE pass' = Idle
    <3>1. pass'.at = "idle"
      BY <2>3 DEF Idle
    <3> QED BY <3>1 DEF PassAgrees
  <2> QED BY <2>2, <2>3
<1> QED BY <1>1, <1>2 DEF IInv

LEMMA NextInv == IInv /\ [Next]_vars => IInv'
<1> SUFFICES ASSUME IInv, [Next]_vars PROVE IInv'
  OBVIOUS
<1>1. now \in Int /\ minted \in Int
  BY DEF IInv, TypesOK
<1>2. ASSUME MakerRetiresExpired PROVE IInv'
  <2>1. /\ disk' = Null /\ published' = published /\ pass'.at = "idle"
        /\ now' \in Int /\ minted' \in Int
    BY <1>1, <1>2 DEF MakerRetiresExpired, retire
  <2> QED BY <2>1, QuietStep
<1>3. ASSUME Pass PROVE IInv'
  BY <1>2, <1>3, MakerReadsInv, MakerLocksInv, MakerDecidesInv, MakerSelectsInv,
     MakerSignsInv, RequestAnsweredInv DEF Pass
<1>4. CASE PassThrows
  BY <1>1, <1>4, ElsewhereStep DEF PassThrows
<1>5. CASE Crash
  BY <1>1, <1>5, ElsewhereStep DEF Crash
<1>6. CASE StopForDrain \/ Restart
  BY <1>1, <1>6, ElsewhereStep DEF StopForDrain, Restart
<1>7. CASE \E req \in net : Delivered(req)
  BY <1>1, <1>7, ElsewhereStep DEF Delivered
<1>8. CASE BookSweeps
  BY <1>1, <1>8, ElsewhereStep DEF BookSweeps
<1>9. CASE \E i \in Intents : SubmitIntent(i) \/ TakerWalksAway(i)
  BY <1>1, <1>9, ElsewhereStep DEF SubmitIntent, TakerWalksAway
<1>10. CASE \E l \in locks : LockMines(l) \/ LegSettles(l)
  BY <1>1, <1>10, ElsewhereStep DEF LockMines, LegSettles
<1>11. CASE Tick
  BY <1>1, <1>11, ElsewhereStep DEF Tick
<1>12. CASE UNCHANGED vars
  BY <1>1, <1>12, ElsewhereStep DEF vars
<1> QED BY <1>3, <1>4, <1>5, <1>6, <1>7, <1>8, <1>9, <1>10, <1>11, <1>12,
           RequestUnansweredInv DEF Next

LEMMA Inductive == Spec => []IInv
BY InitInv, NextInv, PTL DEF Spec

LEMMA OneFromIInv == IInv => OneTerminalDecision
<1> SUFFICES ASSUME IInv PROVE Cardinality(published) <= 1
  BY DEF OneTerminalDecision
<1>1. CASE published = {}
  BY <1>1, FS_EmptySet
<1>2. CASE published # {}
  <2>1. PICK req : published = {req}
    BY <1>2 DEF IInv, PublishedAgrees
  <2>2. Cardinality({req}) = 1
    BY FS_Singleton
  <2> QED BY <2>1, <2>2
<1> QED BY <1>1, <1>2

\* However crashes, thrown passes, unanswered requests and late deliveries
\* interleave with the daemon's own steps, at most one terminal artifact of
\* an order leaves the process: the fill and the cancellation are both in the
\* state file before the network sees them, cancelManaged() refuses a record
\* with a fill, and a record with a cancellation never reaches the signing
\* (index.ts, "never sign the opposite terminal action").
THEOREM OneDecision == Spec => []OneTerminalDecision
BY Inductive, OneFromIInv, PTL

-----------------------------------------------------------------------------
(* The state file holds what settles the daemon's escrows.                 *)

LegStatuses == {"None", "Open", "Claimed", "Refunded"}

\* What parseProtocol() asks of the record, as far as the chain depends on it.
RecordAgrees ==
    disk # Null =>
        /\ disk.secret # Null => disk.secret \in 1 .. minted /\ disk.selectedAt \in Nat
        /\ disk.sel # Null => disk.secret # Null
        /\ disk.fill # Null => disk.sel # Null /\ disk.fill.selectedAt \in Nat
        /\ disk.fillAcknowledged => disk.fill # Null
        /\ disk.lockSentAt # Null => disk.fillAcknowledged

\* A pass signs a selected proposal only, and locks an acknowledged fill only.
PassKnows ==
    /\ pass.at = "sign" => disk.sel # Null
    /\ pass.at = "lock" => disk.fillAcknowledged

ChainTyped ==
    /\ now \in Nat
    /\ minted \in 0 .. MaxSecrets
    /\ legs \in [Secrets -> LegStatuses]
    /\ \A l \in locks : l.secret \in 1 .. minted /\ l.timeout \in Int
    /\ \A s \in Secrets : legs[s] # "None" => \E l \in locks : l.secret = s

\* A secret that a lock was broadcast for is used for one set of terms, and
\* the record that holds it has the lock's marker.
LocksMarked ==
    disk # Null =>
        \A l \in locks : l.secret = disk.secret =>
            /\ disk.lockSentAt # Null
            /\ disk.selectedAt + InitiatorWindow = l.timeout

SecretInv == RecordAgrees /\ PassKnows /\ ChainTyped /\ LocksMarked /\ SecretKept

\* A lock transaction that is, or can still become, an open escrow.
Live(l) == legs[l.secret] = "Open" \/ (legs[l.secret] = "None" /\ now < l.timeout)

\* T keeps the terms of S, and acknowledges no fill that it does not hold.
SameTerms(S, T) ==
    /\ T \in Records
    /\ T.sel = S.sel /\ T.secret = S.secret /\ T.selectedAt = S.selectedAt
    /\ T.fill = S.fill /\ T.lockSentAt = S.lockSentAt
    /\ S.fillAcknowledged => T.fillAcknowledged
    /\ T.fillAcknowledged => T.fill # Null \/ S.fillAcknowledged

LEMMA SameTermsItself ==
    ASSUME NEW rec \in Records
    PROVE  SameTerms(rec, rec)
BY DEF SameTerms

LEMMA ObservedTerms ==
    ASSUME NEW rec \in Records, NEW row
    PROVE  SameTerms(rec, Observed(rec, row))
BY DEF Observed, SameTerms, Records

LEMMA CancelSignedTerms ==
    ASSUME NEW rec \in Records
    PROVE  SameTerms(rec, CancelSigned(rec))
BY DEF CancelSigned, SameTerms, Records

\* A record that has taken no decision to fill has no lock under its secret.
LEMMA UndecidedUnlocked ==
    ASSUME SecretInv, disk # Null, disk.fill = Null
    PROVE  /\ \A l \in locks : l.secret # disk.secret
           /\ \A l \in locks : ~Live(l)
           /\ disk.lockSentAt = Null /\ ~disk.fillAcknowledged
<1>1. ~disk.fillAcknowledged /\ disk.lockSentAt = Null
  BY DEF SecretInv, RecordAgrees
<1>2. \A l \in locks : l.secret # disk.secret
  BY <1>1 DEF SecretInv, LocksMarked
<1> QED BY <1>1, <1>2 DEF SecretInv, SecretKept, Live

\* The record keeps its terms, or nothing happens to it.
LEMMA KeepingStep ==
    ASSUME SecretInv, disk # Null, disk' # Null, SameTerms(disk, disk'),
           UNCHANGED <<now, minted, chainVars>>,
           pass'.at = "sign" => disk'.sel # Null,
           pass'.at = "lock" => disk'.fillAcknowledged
    PROVE  SecretInv'
<1>1. RecordAgrees'
  BY DEF SecretInv, RecordAgrees, SameTerms
<1>2. PassKnows'
  BY DEF PassKnows
<1>3. ChainTyped'
  BY DEF SecretInv, ChainTyped, chainVars
<1>4. LocksMarked'
  BY DEF SecretInv, LocksMarked, SameTerms, chainVars
<1>5. SecretKept'
  BY DEF SecretInv, SecretKept, SameTerms, chainVars
<1> QED BY <1>1, <1>2, <1>3, <1>4, <1>5 DEF SecretInv

\* The record is given up when no escrow depends on it.
LEMMA DroppingStep ==
    ASSUME SecretInv, disk # Null, disk' = Null, pass'.at = "idle",
           UNCHANGED <<now, minted, chainVars>>,
           \A l \in locks : l.secret = disk.secret => ~Live(l)
    PROVE  SecretInv'
<1>1. RecordAgrees' /\ PassKnows' /\ LocksMarked'
  BY DEF RecordAgrees, PassKnows, LocksMarked
<1>2. ChainTyped'
  BY DEF SecretInv, ChainTyped, chainVars
<1>3. \A l \in locks : ~Live(l)
  BY DEF SecretInv, SecretKept, Live
<1>4. SecretKept'
  BY <1>3 DEF SecretKept, Live, chainVars
<1> QED BY <1>1, <1>2, <1>4 DEF SecretInv

\* A selection is made or dropped: the secret is new, or there is none.
LEMMA SelectingStep ==
    ASSUME SecretInv, disk # Null, disk.fill = Null, disk' # Null,
           disk'.fill = Null, disk'.lockSentAt = disk.lockSentAt,
           disk'.fillAcknowledged = disk.fillAcknowledged,
           UNCHANGED <<now, chainVars>>, minted' \in minted .. MaxSecrets,
           \/ disk'.secret = Null /\ disk'.sel = Null
           \/ /\ disk'.secret = minted + 1 /\ minted' = minted + 1
              /\ disk'.selectedAt = now
           \/ /\ disk'.sel = disk.sel /\ disk'.secret = disk.secret
              /\ disk'.selectedAt = disk.selectedAt,
           pass'.at = "sign" => disk'.sel # Null,
           pass'.at # "lock"
    PROVE  SecretInv'
<1>1. /\ \A l \in locks : l.secret # disk.secret
      /\ \A l \in locks : ~Live(l)
      /\ disk.lockSentAt = Null /\ ~disk.fillAcknowledged
  BY UndecidedUnlocked
<1>2. /\ now \in Nat /\ minted \in Nat /\ minted' \in Nat /\ minted <= minted'
      /\ minted' <= MaxSecrets /\ MaxSecrets \in Nat
  BY OrderAssumption DEF SecretInv, ChainTyped
<1>3. minted + 1 # Null /\ now # Null
  BY <1>2, OrderAssumption
<1>4. RecordAgrees'
  <2>1. ~disk'.fillAcknowledged /\ disk'.lockSentAt = Null
    BY <1>1
  <2>2. CASE disk'.secret = Null /\ disk'.sel = Null
    BY <2>1, <2>2 DEF RecordAgrees
  <2>3. CASE disk'.secret = minted + 1 /\ minted' = minted + 1 /\ disk'.selectedAt = now
    <3>1. disk'.secret \in 1 .. minted' /\ disk'.selectedAt \in Nat
      BY <1>2, <2>3
    <3>2. disk'.secret # Null
      BY <1>3, <2>3
    <3> QED BY <2>1, <3>1, <3>2 DEF RecordAgrees
  <2>4. CASE /\ disk'.sel = disk.sel /\ disk'.secret = disk.secret
             /\ disk'.selectedAt = disk.selectedAt
    <3>1. disk.secret # Null => disk.secret \in 1 .. minted' /\ disk.selectedAt \in Nat
      BY <1>2 DEF SecretInv, RecordAgrees
    <3>2. disk.sel # Null => disk.secret # Null
      BY DEF SecretInv, RecordAgrees
    <3> QED BY <2>1, <2>4, <3>1, <3>2 DEF RecordAgrees
  <2> QED BY <2>2, <2>3, <2>4
<1>5. PassKnows'
  BY DEF PassKnows
<1>6. \A l \in locks : l.secret \in 1 .. minted'
  BY <1>2 DEF SecretInv, ChainTyped
<1>7. ChainTyped'
  BY <1>2, <1>6 DEF SecretInv, ChainTyped, chainVars
<1>8. \A l \in locks : l.secret # disk'.secret
  <2>1. \A l \in locks : l.secret # Null /\ l.secret # minted + 1
    BY <1>2, OrderAssumption DEF SecretInv, ChainTyped
  <2> QED BY <1>1, <2>1
<1>9. LocksMarked'
  BY <1>8 DEF LocksMarked, chainVars
<1>10. SecretKept'
  BY <1>1 DEF SecretKept, Live, chainVars
<1> QED BY <1>4, <1>5, <1>7, <1>9, <1>10 DEF SecretInv

\* What decide() answers, as far as the record is concerned.
LEMMA DecideSays ==
    ASSUME NEW x
    PROVE  /\ P!decide(x) = "lock" => x.managed.fillAcknowledged
           /\ P!decide(x) = "abort" => x.managed.lockSentAt = Null
           /\ P!decide(x) = "finish" => P!terminal(x.iState)
<1>1. P!LockDue(x) => x.managed.fillAcknowledged
  BY DEF P!LockDue
<1>2. P!exposureExcluded(x) \/ P!NeverLocked(x) => x.managed.lockSentAt = Null
  BY DEF P!exposureExcluded, P!NeverLocked
<1> QED BY <1>1, <1>2 DEF P!decide

LEMMA PolicyInputIs ==
    ASSUME NEW rec, NEW iState, NEW rStatus
    PROVE  LET x == PolicyInput(rec, iState, rStatus) IN
           /\ x.managed.fillAcknowledged = rec.fillAcknowledged
           /\ x.managed.lockSentAt = rec.lockSentAt
           /\ x.iState = iState
BY DEF PolicyInput

LEMMA BranchSays ==
    ASSUME NEW rec, NEW iState, NEW rStatus, NEW reprice,
           NEW b, b = Branch(rec, iState, rStatus, reprice)
    PROVE  /\ b = "lock" => rec.fillAcknowledged
           /\ b = "abort" => rec.lockSentAt = Null
           /\ b = "finish" => P!terminal(iState)
           /\ b = "retire" => rec.fill = Null \/ rec.cancel
<1> DEFINE x == PolicyInput(rec, iState, rStatus)
<1>1. /\ P!decide(x) = "lock" => rec.fillAcknowledged
      /\ P!decide(x) = "abort" => rec.lockSentAt = Null
      /\ P!decide(x) = "finish" => P!terminal(iState)
  BY DecideSays, PolicyInputIs
<1>2. P!decide(x) # "retire"
  BY DecideIs DEF P!Decisions
<1> HIDE DEF x
<1> QED BY <1>1, <1>2 DEF Branch, x

LEMMA MakerDecidesSecret ==
    ASSUME IInv, SecretInv, NEW iOk, NEW rStatus, NEW reprice,
           MakerDecides(iOk, rStatus, reprice)
    PROVE  SecretInv'
<1> DEFINE iState == IF iOk THEN iStateOf(disk) ELSE Null
           b == Branch(disk, iState, rStatus, reprice)
<1>1. disk # Null /\ disk \in Records /\ pass.at = "read"
  BY DEF IInv, TypesOK, PassAgrees, MakerDecides
<1>2. /\ b \in {"giveUp", "select"} => disk.fill = Null /\ ~disk.cancel
      /\ b \notin {"intents", "sign", "cancel or gone", "read"}
  BY BranchAgrees
<1>3. /\ b = "lock" => disk.fillAcknowledged
      /\ b = "abort" => disk.lockSentAt = Null
      /\ b = "finish" => P!terminal(iState)
      /\ b = "retire" => disk.fill = Null \/ disk.cancel
  BY BranchSays
<1>4. UNCHANGED <<now, minted, chainVars>>
  BY DEF MakerDecides
<1>5. CASE b \in {"retire", "finish", "abort"}
  <2>1. disk' = Null /\ pass'.at = "idle"
    BY <1>5 DEF MakerDecides, retire, Idle
  <2>2. ASSUME NEW l \in locks, l.secret = disk.secret PROVE ~Live(l)
    <3>1. disk.lockSentAt # Null /\ disk.fill # Null /\ ~disk.cancel
      BY <1>1, <2>2 DEF SecretInv, LocksMarked, RecordAgrees, IInv, OneOnDisk
    <3>2. P!terminal(iState)
      BY <1>3, <1>5, <3>1
    <3>3. legs[disk.secret] \in {"Claimed", "Refunded"}
      BY <3>2 DEF P!terminal, iStateOf
    <3> QED BY <2>2, <3>3 DEF Live
  <2> QED BY <1>1, <1>4, <2>1, <2>2, DroppingStep
<1>6. CASE b = "select"
  <2>1. disk' = Deselected(disk) /\ pass' = At(IF Deselected(disk).sel = Null THEN "intents" ELSE "sign")
    BY <1>6 DEF MakerDecides, persist
  <2>2. /\ disk' \in Records /\ disk' # Null /\ disk'.fill = Null
        /\ disk'.lockSentAt = disk.lockSentAt
        /\ disk'.fillAcknowledged = disk.fillAcknowledged
        /\ \/ disk'.secret = Null /\ disk'.sel = Null
           \/ /\ disk'.sel = disk.sel /\ disk'.secret = disk.secret
              /\ disk'.selectedAt = disk.selectedAt
    BY <1>1, <1>2, <1>6, <2>1, NullAssumption, ZenonT(60) DEF Deselected, Records
  <2>3. /\ pass'.at = "sign" => disk'.sel # Null
        /\ pass'.at # "lock"
    BY <2>1 DEF At, Idle
  <2>4. minted' \in minted .. MaxSecrets
    BY <1>4, OrderAssumption DEF SecretInv, ChainTyped
  <2> QED BY <1>1, <1>2, <1>4, <1>6, <2>2, <2>3, <2>4, SelectingStep
<1>7. CASE b \notin {"select", "retire", "finish", "abort"}
  <2>1. disk' = IF b = "giveUp" THEN CancelSigned(disk) ELSE disk
    BY <1>7 DEF MakerDecides, persist
  <2>2. SameTerms(disk, disk')
    BY <1>1, <2>1, CancelSignedTerms, SameTermsItself
  <2>3. disk' # Null
    BY <2>2, NullAssumption DEF SameTerms
  <2>4. pass'.at # "sign" /\ (pass'.at = "lock" => b = "lock")
    BY <1>2, <1>7 DEF MakerDecides, At, Idle
  <2>5. pass'.at = "lock" => disk'.fillAcknowledged
    BY <1>3, <2>2, <2>4 DEF SameTerms
  <2> QED BY <1>1, <1>4, <2>2, <2>3, <2>4, <2>5, KeepingStep
<1> QED BY <1>5, <1>6, <1>7

LEMMA MakerSelectsSecret ==
    ASSUME IInv, SecretInv, MakerSelects
    PROVE  SecretInv'
<1>1. /\ disk # Null /\ disk \in Records /\ disk.fill = Null
      /\ minted \in 0 .. MaxSecrets /\ MaxSecrets \in Nat /\ now \in Nat
  BY OrderAssumption DEF IInv, TypesOK, PassAgrees, MakerSelects, SecretInv, ChainTyped
<1>2. UNCHANGED <<now, chainVars>>
  BY DEF MakerSelects
<1>3. CASE UNCHANGED <<disk, minted>> /\ pass' = Idle
  <2>1. pass'.at = "idle"
    BY <1>3 DEF Idle
  <2> QED BY <1>1, <1>2, <1>3, <2>1, SameTermsItself, KeepingStep
<1>4. CASE \E i \in Earliest :
             /\ minted < MaxSecrets
             /\ minted' = minted + 1
             /\ disk' = [disk EXCEPT !.sel = i, !.secret = minted + 1, !.selectedAt = now]
             /\ pass' = At("sign")
  <2>1. PICK i \in Intents :
             /\ minted < MaxSecrets
             /\ minted' = minted + 1
             /\ disk' = [disk EXCEPT !.sel = i, !.secret = minted + 1, !.selectedAt = now]
             /\ pass' = At("sign")
    BY <1>4 DEF Earliest, Candidates
  <2>2. /\ disk' \in Records /\ disk'.fill = Null
        /\ disk'.lockSentAt = disk.lockSentAt
        /\ disk'.fillAcknowledged = disk.fillAcknowledged
        /\ disk'.sel = i /\ disk'.secret = minted + 1 /\ disk'.selectedAt = now
    <3>1. minted + 1 \in Int /\ now \in Int
      BY <1>1
    <3> QED BY <1>1, <2>1, <3>1 DEF Records
  <2>3. disk' # Null
    BY <2>2, NullAssumption
  <2>4. minted' \in minted .. MaxSecrets
    BY <1>1, <2>1
  <2>5. pass'.at = "sign"
    BY <2>1 DEF At, Idle
  <2>6. i # Null
    BY NullAssumption
  <2> QED BY <1>1, <1>2, <2>1, <2>2, <2>3, <2>4, <2>5, <2>6, SelectingStep
<1> QED BY <1>3, <1>4 DEF MakerSelects, persist

LEMMA MakerSignsSecret ==
    ASSUME IInv, SecretInv, MakerSigns
    PROVE  SecretInv'
<1>1. /\ disk # Null /\ disk \in Records /\ disk.fill = Null /\ disk.sel # Null
      /\ now \in Int
  BY DEF IInv, TypesOK, PassAgrees, MakerSigns, SecretInv, PassKnows
<1>2. UNCHANGED <<now, minted, chainVars>>
  BY DEF MakerSigns
<1>3. CASE disk' = disk /\ pass' = Idle
  <2>1. pass'.at = "idle"
    BY <1>3 DEF Idle
  <2> QED BY <1>1, <1>2, <1>3, <2>1, SameTermsItself, KeepingStep
<1>4. CASE disk' = CancelSigned(disk) /\ pass' = At("cancel")
  <2>1. pass'.at = "cancel"
    BY <1>4 DEF At, Idle
  <2>2. SameTerms(disk, disk') /\ disk' # Null
    BY <1>1, <1>4, CancelSignedTerms, NullAssumption DEF SameTerms
  <2> QED BY <1>1, <1>2, <2>1, <2>2, KeepingStep
<1>5. CASE /\ disk' = FillSigned(disk)
           /\ pass' = [At("fill") EXCEPT !.fill = FillOf(disk)]
  <2>1. pass'.at = "fill"
    BY <1>5 DEF At, Idle
  <2>2. /\ disk' \in Records /\ disk'.fill = FillOf(disk) /\ FillOf(disk) \in Fills
    BY <1>1, <1>5, FillSignedIs, OrderAssumption
  <2>3. /\ disk'.sel = disk.sel /\ disk'.secret = disk.secret
        /\ disk'.selectedAt = disk.selectedAt
        /\ disk'.lockSentAt = disk.lockSentAt
        /\ disk'.fillAcknowledged = disk.fillAcknowledged
    BY <1>1, <1>5 DEF FillSigned, Records
  <2>4. FillOf(disk).selectedAt = disk.selectedAt
    BY DEF FillOf
  <2>5. /\ \A l \in locks : l.secret # disk.secret
        /\ \A l \in locks : ~Live(l)
        /\ disk.lockSentAt = Null /\ ~disk.fillAcknowledged
    BY <1>1, UndecidedUnlocked
  <2>6. disk.secret # Null /\ disk.secret \in 1 .. minted /\ disk.selectedAt \in Nat
    BY <1>1 DEF SecretInv, RecordAgrees
  <2>7. RecordAgrees'
    BY <1>1, <1>2, <2>2, <2>3, <2>4, <2>5, <2>6 DEF RecordAgrees
  <2>8. PassKnows'
    BY <2>1 DEF PassKnows
  <2>9. ChainTyped'
    BY <1>2 DEF SecretInv, ChainTyped, chainVars
  <2>10. LocksMarked'
    BY <1>2, <2>3, <2>5 DEF LocksMarked, chainVars
  <2>11. SecretKept'
    BY <1>2, <2>5 DEF SecretKept, Live, chainVars
  <2> QED BY <2>7, <2>8, <2>9, <2>10, <2>11 DEF SecretInv
<1> QED BY <1>3, <1>4, <1>5 DEF MakerSigns, persist

\* The lock of an acknowledged fill is broadcast after its marker is on disk.
LEMMA LockingStep ==
    ASSUME SecretInv, disk # Null, disk.fillAcknowledged, NEW rec,
           SameTerms(disk, rec), disk' = [rec EXCEPT !.lockSentAt = now],
           pass' = Idle, UNCHANGED <<now, minted, legs>>,
           \/ locks' = locks
           \/ locks' = locks \cup {[secret |-> disk.secret,
                                    timeout |-> disk.selectedAt + InitiatorWindow]}
    PROVE  SecretInv'
<1>1. now \in Nat /\ now # Null /\ InitiatorWindow \in Nat
  BY OrderAssumption DEF SecretInv, ChainTyped
<1>2. /\ disk' \in Records /\ disk'.sel = disk.sel /\ disk'.secret = disk.secret
      /\ disk'.selectedAt = disk.selectedAt /\ disk'.fill = disk.fill
      /\ disk'.lockSentAt # Null /\ disk'.fillAcknowledged
  <2>1. now \in Int
    BY <1>1
  <2> QED BY <1>1, <2>1 DEF SameTerms, Records
<1>3. disk' # Null
  BY <1>2, NullAssumption
<1>4. /\ disk.fill # Null /\ disk.secret # Null
      /\ disk.secret \in 1 .. minted /\ disk.selectedAt \in Nat
  BY DEF SecretInv, RecordAgrees
<1>5. RecordAgrees'
  BY <1>2, <1>3 DEF SecretInv, RecordAgrees
<1>6. PassKnows'
  BY DEF PassKnows, Idle
<1>7. ASSUME NEW l \in locks'
      PROVE  \/ l \in locks
             \/ l.secret = disk.secret /\ l.timeout = disk.selectedAt + InitiatorWindow
  BY <1>7
<1>8. ChainTyped'
  <2>1. \A l \in locks' : l.secret \in 1 .. minted /\ l.timeout \in Int
    BY <1>1, <1>4, <1>7 DEF SecretInv, ChainTyped
  <2>2. \A s \in Secrets : legs[s] # "None" => \E l \in locks' : l.secret = s
    BY DEF SecretInv, ChainTyped
  <2> QED BY <2>1, <2>2 DEF SecretInv, ChainTyped
<1>9. LocksMarked'
  BY <1>2, <1>7 DEF SecretInv, LocksMarked
<1>10. SecretKept'
  BY <1>2, <1>3, <1>7 DEF SecretInv, SecretKept
<1> QED BY <1>5, <1>6, <1>8, <1>9, <1>10 DEF SecretInv

LEMMA MakerLocksSecret ==
    ASSUME IInv, SecretInv, NEW bookUp \in BOOLEAN, MakerLocks(bookUp)
    PROVE  SecretInv'
<1> DEFINE row == Swept(book)
           seen == IF bookUp THEN Observed(disk, row) ELSE disk
           lock == [secret |-> disk.secret, timeout |-> disk.selectedAt + InitiatorWindow]
<1>1. disk # Null /\ disk \in Records /\ disk.fillAcknowledged
  BY DEF IInv, TypesOK, PassAgrees, MakerLocks, SecretInv, PassKnows
<1>2. UNCHANGED <<now, minted, legs>> /\ pass' = Idle
  BY DEF MakerLocks
<1>3. SameTerms(disk, disk) /\ SameTerms(disk, seen)
  BY <1>1, SameTermsItself, ObservedTerms
<1>4. pass'.at = "idle"
  BY <1>2 DEF Idle
<1>5. CASE (disk' = disk \/ disk' = seen) /\ locks' = locks
  <2>1. SameTerms(disk, disk') /\ disk' # Null
    BY <1>3, <1>5, NullAssumption DEF SameTerms
  <2>2. UNCHANGED chainVars
    BY <1>2, <1>5 DEF chainVars
  <2> QED BY <1>1, <1>2, <1>4, <2>1, <2>2, KeepingStep
<1>6. CASE /\ disk' = [seen EXCEPT !.lockSentAt = now]
           /\ locks' = locks \/ locks' = locks \cup {lock}
  <2> HIDE DEF seen
  <2> QED BY <1>1, <1>2, <1>3, <1>6, LockingStep
<1> QED BY <1>5, <1>6 DEF MakerLocks, persist

LEMMA RequestAnsweredSecret ==
    ASSUME IInv, SecretInv, RequestAnswered
    PROVE  SecretInv'
<1>1. Requesting /\ pass' = Idle /\ UNCHANGED <<now, minted, chainVars>>
  BY DEF RequestAnswered
<1>2. disk # Null /\ disk \in Records
  BY <1>1, RequestStates
<1>3. pass'.at = "idle"
  BY <1>1 DEF Idle
<1>4. ASSUME NEW row, pass.at = "fill"
      PROVE  SameTerms(disk, Observed([disk EXCEPT !.fill = pass.fill], row))
  <2>1. [disk EXCEPT !.fill = pass.fill] = disk
    BY <1>2, <1>4 DEF IInv, PassAgrees, Records
  <2> QED BY <1>2, <2>1, ObservedTerms
<1>5. CASE disk' = Null /\ pass.at \in {"cancel", "cancel or gone"}
  <2>1. disk.fill = Null
    BY <1>2, <1>5 DEF IInv, PassAgrees, OneOnDisk
  <2>2. \A l \in locks : ~Live(l)
    BY <1>2, <2>1, UndecidedUnlocked
  <2> QED BY <1>1, <1>2, <1>3, <1>5, <2>2, DroppingStep
<1>6. CASE SameTerms(disk, disk')
  <2>1. disk' # Null
    BY <1>6, NullAssumption DEF SameTerms
  <2> QED BY <1>1, <1>2, <1>3, <1>6, <2>1, KeepingStep
<1>7. SameTerms(disk, disk)
  BY <1>2, SameTermsItself
<1> QED BY <1>1, <1>4, <1>5, <1>6, <1>7 DEF RequestAnswered, persist, retire, Requesting

LEMMA MakerReadsSecret ==
    ASSUME IInv, SecretInv, NEW bookUp \in BOOLEAN, MakerReads(bookUp)
    PROVE  SecretInv'
<1>1. disk # Null /\ disk \in Records
  BY DEF IInv, TypesOK, MakerReads
<1>2. UNCHANGED <<now, minted, chainVars>>
  BY DEF MakerReads
<1>3. pass'.at \in {"idle", "read"}
  BY DEF MakerReads, At, Idle
<1>4. SameTerms(disk, disk')
  BY <1>1, SameTermsItself, ObservedTerms DEF MakerReads, persist
<1>5. disk' # Null
  BY <1>4, NullAssumption DEF SameTerms
<1> QED BY <1>1, <1>2, <1>3, <1>4, <1>5, KeepingStep

\* The record and the secrets stay; the chain and the clock go on.
LEMMA SettlingStep ==
    ASSUME SecretInv, UNCHANGED <<disk, pass, minted, locks>>, now' \in Nat, now <= now',
           legs' \in [Secrets -> LegStatuses],
           \A s \in Secrets : legs[s] # "None" => legs'[s] # "None",
           \A s \in Secrets : legs'[s] # "None" => \E l \in locks : l.secret = s,
           \A l \in locks : Live(l)' => \E k \in locks : k.secret = l.secret /\ Live(k)
    PROVE  SecretInv'
<1>1. RecordAgrees' /\ PassKnows' /\ LocksMarked'
  BY DEF SecretInv, RecordAgrees, PassKnows, LocksMarked
<1>2. ChainTyped'
  BY DEF SecretInv, ChainTyped
<1>3. SecretKept'
  <2> SUFFICES ASSUME NEW l \in locks, Live(l)'
               PROVE  /\ disk # Null /\ disk.secret = l.secret
                      /\ disk.selectedAt + InitiatorWindow = l.timeout
    BY DEF SecretKept, Live
  <2>1. disk # Null /\ disk.secret = l.secret
    BY DEF SecretInv, SecretKept, Live
  <2> QED BY <2>1 DEF SecretInv, LocksMarked
<1> QED BY <1>1, <1>2, <1>3 DEF SecretInv

\* Steps that touch neither the record nor the chain.
LEMMA ElsewhereSecret ==
    ASSUME IInv, SecretInv, UNCHANGED <<disk, now, minted, chainVars>>,
           pass' = pass \/ pass'.at = "idle"
    PROVE  SecretInv'
<1>1. RecordAgrees' /\ LocksMarked' /\ ChainTyped' /\ SecretKept'
  BY DEF SecretInv, RecordAgrees, LocksMarked, ChainTyped, SecretKept, chainVars
<1>2. PassKnows'
  BY DEF SecretInv, PassKnows
<1> QED BY <1>1, <1>2 DEF SecretInv

LEMMA LocksUseSecrets ==
    ASSUME SecretInv, NEW l \in locks
    PROVE  l.secret \in Secrets
<1>1. l.secret \in 1 .. minted /\ minted \in 0 .. MaxSecrets /\ MaxSecrets \in Nat
  BY OrderAssumption DEF SecretInv, ChainTyped
<1> QED BY <1>1 DEF Secrets

LEMMA SecretNext == IInv /\ SecretInv /\ [Next]_vars => SecretInv'
<1> SUFFICES ASSUME IInv, SecretInv, [Next]_vars PROVE SecretInv'
  OBVIOUS
<1>1. Idle.at = "idle"
  BY DEF Idle
<1>2. ASSUME MakerRetiresExpired PROVE SecretInv'
  <2>1. /\ disk # Null /\ disk' = Null /\ pass'.at = "idle" /\ disk.fill = Null
        /\ UNCHANGED <<now, minted, chainVars>>
    BY <1>2 DEF MakerRetiresExpired, retire, canRetireExpiredUnfundedQuote
  <2>2. \A l \in locks : ~Live(l)
    BY <2>1, UndecidedUnlocked
  <2> QED BY <2>1, <2>2, DroppingStep
<1>3. ASSUME Pass PROVE SecretInv'
  BY <1>2, <1>3, MakerReadsSecret, MakerLocksSecret, MakerDecidesSecret,
     MakerSelectsSecret, MakerSignsSecret, RequestAnsweredSecret DEF Pass
<1>4. CASE PassThrows
  BY <1>1, <1>4, ElsewhereSecret DEF PassThrows
<1>5. CASE Crash
  BY <1>1, <1>5, ElsewhereSecret DEF Crash
<1>6. CASE StopForDrain \/ Restart
  BY <1>6, ElsewhereSecret DEF StopForDrain, Restart
<1>7. CASE \E req \in net : Delivered(req)
  BY <1>7, ElsewhereSecret DEF Delivered
<1>8. CASE BookSweeps
  BY <1>8, ElsewhereSecret DEF BookSweeps
<1>9. CASE \E i \in Intents : SubmitIntent(i) \/ TakerWalksAway(i)
  BY <1>9, ElsewhereSecret DEF SubmitIntent, TakerWalksAway
<1>10. CASE RequestUnanswered
  BY <1>1, <1>10, ElsewhereSecret DEF RequestUnanswered
<1>11. CASE UNCHANGED vars
  BY <1>11, ElsewhereSecret DEF vars, chainVars
<1>12. ASSUME NEW l \in locks, LockMines(l) PROVE SecretInv'
  <2>1. /\ legs[l.secret] = "None" /\ now < l.timeout
        /\ legs' = [legs EXCEPT ![l.secret] = "Open"]
        /\ UNCHANGED <<disk, pass, minted, locks, now>>
    BY <1>12 DEF LockMines
  <2>2. l.secret \in Secrets /\ legs \in [Secrets -> LegStatuses] /\ now \in Nat
    BY LocksUseSecrets DEF SecretInv, ChainTyped
  <2>3. \A s \in Secrets : legs'[s] = IF s = l.secret THEN "Open" ELSE legs[s]
    BY <2>1, <2>2
  <2>4. legs' \in [Secrets -> LegStatuses]
    BY <2>1, <2>2 DEF LegStatuses
  <2>5. \A s \in Secrets : legs'[s] # "None" => \E k \in locks : k.secret = s
    BY <2>3 DEF SecretInv, ChainTyped
  <2>6. \A k \in locks : k.secret \in Secrets
    BY LocksUseSecrets
  <2>7. \A k \in locks : Live(k)' => \E j \in locks : j.secret = k.secret /\ Live(j)
    BY <2>1, <2>3, <2>6 DEF Live
  <2> QED BY <2>1, <2>2, <2>3, <2>4, <2>5, <2>7, SettlingStep
<1>13. ASSUME NEW l \in locks, LegSettles(l) PROVE SecretInv'
  <2>1. PICK st \in {"Claimed", "Refunded"} :
          /\ legs[l.secret] = "Open"
          /\ legs' = [legs EXCEPT ![l.secret] = st]
          /\ UNCHANGED <<disk, pass, minted, locks, now>>
    BY <1>13 DEF LegSettles
  <2>2. l.secret \in Secrets /\ legs \in [Secrets -> LegStatuses] /\ now \in Nat
    BY LocksUseSecrets DEF SecretInv, ChainTyped
  <2>3. \A s \in Secrets : legs'[s] = IF s = l.secret THEN st ELSE legs[s]
    BY <2>1, <2>2
  <2>4. legs' \in [Secrets -> LegStatuses]
    BY <2>1, <2>2 DEF LegStatuses
  <2>5. \A s \in Secrets : legs'[s] # "None" => \E k \in locks : k.secret = s
    BY <2>3 DEF SecretInv, ChainTyped
  <2>6. \A k \in locks : k.secret \in Secrets
    BY LocksUseSecrets
  <2>7. \A k \in locks : Live(k)' => \E j \in locks : j.secret = k.secret /\ Live(j)
    BY <2>1, <2>3, <2>6 DEF Live
  <2> QED BY <2>1, <2>2, <2>3, <2>4, <2>5, <2>7, SettlingStep
<1>14. CASE Tick
  <2>1. now' = now + 1 /\ now \in Nat /\ UNCHANGED <<disk, pass, minted, locks, legs>>
    BY <1>14 DEF Tick, chainVars, SecretInv, ChainTyped
  <2>2. \A l \in locks : l.timeout \in Int
    BY DEF SecretInv, ChainTyped
  <2>3. \A l \in locks : Live(l)' => Live(l)
    BY <2>1, <2>2 DEF Live
  <2>4. now' \in Nat /\ now <= now'
    BY <2>1
  <2> QED BY <2>1, <2>3, <2>4, SettlingStep DEF SecretInv, ChainTyped
<1> QED BY <1>3, <1>4, <1>5, <1>6, <1>7, <1>8, <1>9, <1>10, <1>11, <1>12, <1>13, <1>14 DEF Next

LEMMA SecretInit == Init => SecretInv
<1> SUFFICES ASSUME Init PROVE SecretInv
  OBVIOUS
<1>1. /\ NewRecord.secret = Null /\ NewRecord.sel = Null /\ NewRecord.fill = Null
      /\ ~NewRecord.fillAcknowledged /\ NewRecord.lockSentAt = Null
  BY DEF NewRecord
<1>2. RecordAgrees /\ PassKnows /\ LocksMarked /\ SecretKept
  BY <1>1 DEF Init, RecordAgrees, PassKnows, LocksMarked, SecretKept, At, Idle
<1>3. ChainTyped
  BY OrderAssumption DEF Init, ChainTyped, LegStatuses
<1> QED BY <1>2, <1>3 DEF SecretInv

LEMMA SecretInductive == Spec => []SecretInv
BY Inductive, SecretInit, SecretNext, PTL DEF Spec

\* Whatever crashes, thrown passes, unanswered requests and late deliveries
\* happen, and however a selection is dropped and another one made: as long
\* as an escrow of the daemon is open, or its transaction can still be mined,
\* the state file holds the record whose secret and terms settle it.  The
\* record is given up on a finished escrow, without a lock marker, or before
\* a fill was signed (policy.ts exposureExcluded(); index.ts lockLeg()).
THEOREM SecretNeverLost == Spec => []SecretKept
BY SecretInductive, PTL DEF SecretInv

-----------------------------------------------------------------------------
(* A retired order's listing is closed for good.                           *)

\* No request and no sweep makes the row open again.
Closed == now >= Expiry \/ book.status \in {"cancelled", "locking"}

\* The listing reached the book: if the row is gone, it was swept away.
Appeared == now >= Expiry \/ book.status # "absent"

Rows == [status : {"absent", "open", "locking", "cancelled"},
         fill : Fills \cup {Null}, cancelProof : BOOLEAN, updatedAt : Int]

RowTyped(row) ==
    /\ row \in Rows
    /\ row.fill # Null <=> row.status = "locking"
    /\ row.status = "locking" => row.fill.selectedAt \in Nat

Sendable(req) ==
    \/ req = Create
    \/ req = Cancel
    \/ /\ req = Fill(req.fill)
       /\ req.fill \in Fills /\ req.fill.selectedAt \in Nat

BookTyped == RowTyped(book) /\ \A req \in net : Sendable(req)

\* What the record and the view that a pass holds say of the listing.
RecordOutlives ==
    /\ disk = Null => Closed
    /\ disk # Null /\ disk.fillAcknowledged => Closed
    /\ disk # Null /\ disk.sel # Null => Appeared

ViewHolds ==
    /\ pass.at = "read" =>
        /\ pass.view \in {"unavailable", "gone", "open", "locking", "cancelled"}
        /\ pass.view \in {"locking", "cancelled"} => Closed
        /\ pass.view = "open" => Appeared
        /\ pass.view = "gone" /\ disk.sel # Null => now >= Expiry
    /\ pass.at = "cancel or gone" => Appeared

ListingInv == BookTyped /\ RecordOutlives /\ ViewHolds

\* What becomes of a row, whoever reads or asks: while the order is valid a
\* closed row stays closed, and a row that appeared does not vanish.
RowFollows(row, next) ==
    /\ RowTyped(next)
    /\ row.status \in {"cancelled", "locking"} =>
           now >= Expiry \/ next.status \in {"cancelled", "locking"}
    /\ row.status # "absent" => now >= Expiry \/ next.status # "absent"

LEMMA RowFollowsItself ==
    ASSUME NEW row, RowTyped(row)
    PROVE  RowFollows(row, row)
BY DEF RowFollows

LEMMA RowFollowsOn ==
    ASSUME NEW a, NEW b, NEW c, RowFollows(a, b), RowFollows(b, c)
    PROVE  RowFollows(a, c)
BY DEF RowFollows

LEMMA NoRowIs == RowTyped(NoRow) /\ NoRow.status = "absent"
BY DEF NoRow, RowTyped, Rows

LEMMA SweptFollows ==
    ASSUME NEW row, RowTyped(row), now \in Nat
    PROVE  /\ RowFollows(row, Swept(row))
           /\ Swept(row).status = "open" => now < Expiry
<1>0. Expiry \in Nat /\ InitiatorWindow \in Nat /\ LockingLinger \in Nat
      /\ Expiry <= InitiatorWindow + LockingLinger
  BY OrderAssumption
<1>1. CASE row.status = "open" /\ now >= Expiry
  <2>1. Swept(row) = [row EXCEPT !.status = "cancelled", !.updatedAt = now]
    BY <1>1 DEF Swept
  <2>2. /\ Swept(row).status = "cancelled" /\ Swept(row).fill = row.fill
        /\ Swept(row) \in Rows
    <3>1. now \in Int
      OBVIOUS
    <3> QED BY <2>1, <3>1 DEF RowTyped, Rows
  <2> QED BY <1>1, <2>2 DEF RowFollows, RowTyped
<1>2. CASE /\ ~(row.status = "open" /\ now >= Expiry)
           /\ \/ row.status = "cancelled" /\ CanPurgeCancelled(row)
              \/ row.status = "locking" /\ CanPurgeLocking(row)
  <2>1. Swept(row) = NoRow
    BY <1>2 DEF Swept
  <2>2. now >= Expiry
    <3>1. CASE CanPurgeCancelled(row)
      <4>1. now > Expiry + TerminalGrace
        BY <3>1 DEF CanPurgeCancelled
      <4> QED BY <1>0, <4>1, OrderAssumption
    <3>2. CASE row.status = "locking" /\ CanPurgeLocking(row)
      <4>1. row.fill.selectedAt \in Nat
        BY <3>2 DEF RowTyped
      <4>2. now > row.fill.selectedAt + InitiatorWindow + LockingLinger
        BY <3>2 DEF CanPurgeLocking
      <4> QED BY <1>0, <4>1, <4>2
    <3> QED BY <1>2, <3>1, <3>2
  <2> QED BY <2>1, <2>2, NoRowIs DEF RowFollows
<1>3. CASE /\ ~(row.status = "open" /\ now >= Expiry)
           /\ ~ \/ row.status = "cancelled" /\ CanPurgeCancelled(row)
                \/ row.status = "locking" /\ CanPurgeLocking(row)
  <2>1. Swept(row) = row
    BY <1>3 DEF Swept
  <2>2. row.status = "open" => now < Expiry
    BY <1>0, <1>3
  <2> QED BY <2>1, <2>2, RowFollowsItself
<1> QED BY <1>1, <1>2, <1>3

\* What a request makes of a row; it opens one only before the expiry.
LEMMA AppliedFollows ==
    ASSUME NEW row, RowTyped(row), now \in Nat, NEW req, Sendable(req)
    PROVE  /\ RowFollows(row, Applied(row, req))
           /\ Applied(row, req).status = "open" =>
                  row.status = "open" \/ (row.status = "absent" /\ now < Expiry)
<1>0. now \in Int /\ Expiry \in Nat /\ MinRemaining \in Nat /\ MinRemaining > 0
  BY OrderAssumption
<1>1. CASE req = Create
  <2>1. Applied(row, req) = AfterCreate(row)
    BY <1>1 DEF Applied, Create
  <2>2. CASE row.status = "absent" /\ now + MinRemaining <= Expiry
    <3>1. AfterCreate(row) = [NoRow EXCEPT !.status = "open", !.updatedAt = now]
      BY <2>2 DEF AfterCreate
    <3>2. AfterCreate(row) \in Rows /\ AfterCreate(row).status = "open"
          /\ AfterCreate(row).fill = Null
      BY <1>0, <3>1 DEF NoRow, Rows
    <3>3. now < Expiry
      BY <1>0, <2>2
    <3> QED BY <2>1, <2>2, <3>2, <3>3 DEF RowFollows, RowTyped
  <2>3. CASE ~(row.status = "absent" /\ now + MinRemaining <= Expiry)
    <3>1. AfterCreate(row) = row
      BY <2>3 DEF AfterCreate
    <3> QED BY <2>1, <3>1, RowFollowsItself
  <2> QED BY <2>2, <2>3
<1>2. CASE req = Cancel
  <2>1. Applied(row, req) = AfterCancel(row)
    BY <1>2 DEF Applied, Cancel
  <2>2. CASE AfterCancel(row) = row
    BY <2>1, <2>2, RowFollowsItself
  <2>3. CASE /\ row.fill = Null
             /\ AfterCancel(row) = [row EXCEPT !.status = "cancelled",
                                    !.cancelProof = TRUE, !.updatedAt = now]
    <3>1. AfterCancel(row) \in Rows /\ AfterCancel(row).status = "cancelled"
          /\ AfterCancel(row).fill = Null
      BY <1>0, <2>3 DEF RowTyped, Rows
    <3> QED BY <2>1, <3>1 DEF RowFollows, RowTyped
  <2> QED BY <2>2, <2>3 DEF AfterCancel
<1>3. CASE /\ req = Fill(req.fill)
           /\ req.fill \in Fills /\ req.fill.selectedAt \in Nat
  <2> DEFINE f == req.fill
  <2>0. req.kind = "fill"
    BY <1>3 DEF Fill
  <2>1. Applied(row, req) = AfterFill(row, f)
    BY <2>0 DEF Applied
  <2>2. CASE AfterFill(row, f) = row
    BY <2>1, <2>2, RowFollowsItself
  <2>3. CASE AfterFill(row, f) = [row EXCEPT !.status = "locking", !.fill = f,
                                             !.updatedAt = now]
    <3> HIDE DEF f
    <3>1. AfterFill(row, f) \in Rows /\ AfterFill(row, f).status = "locking"
          /\ AfterFill(row, f).fill = f
      BY <1>0, <1>3, <2>3 DEF RowTyped, Rows, f
    <3>2. f # Null /\ f.selectedAt \in Nat
      BY <1>3, NullAssumption DEF f
    <3> QED BY <2>1, <3>1, <3>2 DEF RowFollows, RowTyped
  <2> QED BY <2>2, <2>3 DEF AfterFill
<1> QED BY <1>1, <1>2, <1>3 DEF Sendable

\* Closed is what retiring needs.
LEMMA ClosedIsEnough ==
    ASSUME BookTyped, now \in Nat, Closed
    PROVE  /\ Swept(book).status # "open"
           /\ \A req \in net : Applied(Swept(book), req).status # "open"
<1>0. Expiry \in Nat
  BY OrderAssumption
<1>1. /\ RowFollows(book, Swept(book))
      /\ Swept(book).status = "open" => now < Expiry
  BY SweptFollows DEF BookTyped
<1>2. Swept(book).status # "open" /\ RowTyped(Swept(book))
  BY <1>0, <1>1 DEF Closed, RowFollows
<1>3. now < Expiry => Swept(book).status # "absent"
  BY <1>0, <1>1 DEF Closed, RowFollows
<1>4. ASSUME NEW req \in net PROVE Applied(Swept(book), req).status # "open"
  <2>1. Sendable(req)
    BY DEF BookTyped
  <2> QED BY <1>2, <1>3, <2>1, AppliedFollows
<1> QED BY <1>2, <1>4

\* The book moves on: what was closed stays closed, what appeared stays.
LEMMA BookGoesOn ==
    ASSUME now \in Nat, now' \in Nat, now <= now', RowFollows(book, book')
    PROVE  /\ RowTyped(book)'
           /\ Closed => Closed'
           /\ Appeared => Appeared'
<1>0. Expiry \in Nat
  BY OrderAssumption
<1> QED BY <1>0 DEF RowFollows, Closed, Appeared, RowTyped

\* What every step has to show for the invariant, once the book moved on.
LEMMA ListingStep ==
    ASSUME IInv, SecretInv, ListingInv, now' \in Nat, now <= now', RowFollows(book, book'),
           \A req \in net' : req \in net \/ Sendable(req),
           RecordOutlives', ViewHolds'
    PROVE  ListingInv'
<1>1. RowTyped(book)'
  BY BookGoesOn DEF SecretInv, ChainTyped
<1>2. \A req \in net' : Sendable(req)
  BY DEF ListingInv, BookTyped
<1>3. BookTyped'
  BY <1>1, <1>2 DEF BookTyped, Sendable, Create, Cancel, Fill
<1> QED BY <1>3 DEF ListingInv

LEMMA StaysPast ==
    ASSUME NEW t \in Nat, NEW u \in Nat, NEW e \in Nat, t <= u, t >= e
    PROVE  u >= e
OBVIOUS

\* A step of somebody else, or one that ends the pass.
LEMMA ElsewhereListing ==
    ASSUME IInv, SecretInv, ListingInv, now' \in Nat, now <= now',
           RowFollows(book, book'), disk' = disk,
           \A req \in net' : req \in net \/ Sendable(req),
           pass' = pass \/ pass'.at \notin {"read", "cancel or gone"}
    PROVE  ListingInv'
<1>0. now \in Nat /\ Expiry \in Nat
  BY OrderAssumption DEF SecretInv, ChainTyped
<1>1. (Closed => Closed') /\ (Appeared => Appeared')
  BY <1>0, BookGoesOn
<1>2. RecordOutlives'
  BY <1>1 DEF ListingInv, RecordOutlives
<1>3. ViewHolds'
  <2>1. CASE pass' = pass
    <3>1. now >= Expiry => now' >= Expiry
      BY <1>0, StaysPast
    <3>2. ViewHolds /\ disk' = disk
      BY DEF ListingInv
    <3> QED BY <1>1, <2>1, <3>1, <3>2 DEF ViewHolds
  <2>2. CASE pass'.at \notin {"read", "cancel or gone"}
    BY <2>2 DEF ViewHolds
  <2> QED BY <2>1, <2>2
<1> QED BY <1>2, <1>3, ListingStep

\* The record is given up on a closed listing.
LEMMA RetiringStep ==
    ASSUME IInv, SecretInv, ListingInv, now' = now, RowFollows(book, book'),
           net' = net, disk' = Null, Closed', pass'.at = "idle"
    PROVE  ListingInv'
<1>0. now' \in Nat /\ now <= now'
  BY DEF SecretInv, ChainTyped
<1>1. RecordOutlives' /\ ViewHolds'
  BY DEF RecordOutlives, ViewHolds
<1> QED BY <1>0, <1>1, ListingStep

\* The record goes on: a selection is kept, dropped, or made on a listing
\* that appeared, and a fill is acknowledged on a closed one.
LEMMA RecordingStep ==
    ASSUME IInv, SecretInv, ListingInv, now' = now, RowFollows(book, book'),
           net' = net, disk # Null, disk' # Null,
           disk'.sel = disk.sel \/ disk'.sel = Null \/ Appeared',
           disk'.fillAcknowledged => disk.fillAcknowledged \/ Closed',
           ViewHolds'
    PROVE  ListingInv'
<1>0. now \in Nat /\ now' \in Nat /\ now <= now'
  BY DEF SecretInv, ChainTyped
<1>1. (Closed => Closed') /\ (Appeared => Appeared')
  BY <1>0, BookGoesOn
<1>2. RecordOutlives'
  BY <1>1 DEF ListingInv, RecordOutlives
<1> QED BY <1>0, <1>2, ListingStep

LEMMA BookStays ==
    ASSUME ListingInv, book' = book
    PROVE  RowFollows(book, book')
BY RowFollowsItself DEF ListingInv, BookTyped

LEMMA BookSwept ==
    ASSUME SecretInv, ListingInv, book' = Swept(book)
    PROVE  RowFollows(book, book')
BY SweptFollows DEF ListingInv, BookTyped, SecretInv, ChainTyped

LEMMA BookAsked ==
    ASSUME SecretInv, ListingInv, NEW req, Sendable(req),
           book' = Applied(Swept(book), req)
    PROVE  RowFollows(book, book')
<1>1. RowTyped(book) /\ now \in Nat
  BY DEF ListingInv, BookTyped, SecretInv, ChainTyped
<1>2. RowFollows(book, Swept(book))
  BY <1>1, SweptFollows
<1>3. RowFollows(Swept(book), Applied(Swept(book), req))
  BY <1>1, <1>2, AppliedFollows DEF RowFollows
<1> QED BY <1>2, <1>3, RowFollowsOn

LEMMA ObservedSays ==
    ASSUME NEW rec \in Records, NEW row
    PROVE  /\ Observed(rec, row) \in Records
           /\ Observed(rec, row).sel = rec.sel
           /\ Observed(rec, row).fillAcknowledged =>
                  rec.fillAcknowledged \/ row.status = "locking"
BY DEF Observed, Records

LEMMA MakerReadsListing ==
    ASSUME IInv, SecretInv, ListingInv, NEW bookUp \in BOOLEAN, MakerReads(bookUp)
    PROVE  ListingInv'
<1>1. /\ disk # Null /\ disk \in Records /\ pass.at = "idle" /\ now \in Nat
      /\ Expiry \in Nat
  BY OrderAssumption DEF IInv, TypesOK, MakerReads, SecretInv, ChainTyped
<1>2. now' = now /\ net' = net
  BY DEF MakerReads
<1>3. CASE ~bookUp
  <2>1. /\ book' = book /\ disk' = disk
        /\ pass' = [At("read") EXCEPT !.view = "unavailable"]
    BY <1>3 DEF MakerReads
  <2>2. pass'.at = "read" /\ pass'.view = "unavailable"
    BY <2>1 DEF At, Idle
  <2>3. ViewHolds'
    BY <2>2 DEF ViewHolds
  <2> QED BY <1>1, <1>2, <2>1, <2>3, BookStays, RecordingStep
<1>4. CASE bookUp /\ ~Authentic(disk, Swept(book))
  <2>1. book' = Swept(book) /\ disk' = disk /\ pass' = pass
    BY <1>4 DEF MakerReads
  <2>2. ViewHolds'
    BY <1>1, <2>1 DEF ViewHolds
  <2> QED BY <1>1, <1>2, <2>1, <2>2, BookSwept, RecordingStep
<1>5. CASE bookUp /\ Authentic(disk, Swept(book))
  <2>1. /\ book' = Swept(book) /\ disk' = Observed(disk, Swept(book))
        /\ pass' = [At("read") EXCEPT !.view = StatusOf(Swept(book)),
                                      !.released = Released(Swept(book))]
    BY <1>5 DEF MakerReads, persist
  <2>2. pass'.at = "read" /\ pass'.view = StatusOf(book')
    BY <2>1 DEF At, Idle
  <2>3. /\ disk' # Null /\ disk'.sel = disk.sel
        /\ disk'.fillAcknowledged => disk.fillAcknowledged \/ book'.status = "locking"
    BY <1>1, <2>1, ObservedSays, NullAssumption
  <2>4. RowFollows(book, book')
    BY <2>1, BookSwept
  <2>5. book'.status \in {"absent", "open", "locking", "cancelled"}
    BY <2>4 DEF RowFollows, RowTyped, Rows
  <2>6. Appeared => Appeared'
    BY <1>1, <1>2, <2>4, BookGoesOn
  <2>7. ViewHolds'
    <3>1. pass'.view \in {"unavailable", "gone", "open", "locking", "cancelled"}
      BY <2>2, <2>5 DEF StatusOf
    <3>2. pass'.view \in {"locking", "cancelled"} => Closed'
      BY <2>2, <2>5 DEF StatusOf, Closed
    <3>3. pass'.view = "open" => Appeared'
      BY <2>2, <2>5 DEF StatusOf, Appeared
    <3>4. pass'.view = "gone" /\ disk'.sel # Null => now' >= Expiry
      <4>1. pass'.view = "gone" => book'.status = "absent"
        BY <2>2, <2>5 DEF StatusOf
      <4>2. disk.sel # Null => Appeared
        BY <1>1 DEF ListingInv, RecordOutlives
      <4> QED BY <2>3, <2>6, <4>1, <4>2 DEF Appeared
    <3> QED BY <2>2, <3>1, <3>2, <3>3, <3>4 DEF ViewHolds
  <2>8. disk'.fillAcknowledged => disk.fillAcknowledged \/ Closed'
    BY <2>3 DEF Closed
  <2> QED BY <1>1, <1>2, <2>3, <2>4, <2>7, <2>8, RecordingStep
<1> QED BY <1>3, <1>4, <1>5

\* What a pass has seen when it gives the record up.
LEMMA BranchRetires ==
    ASSUME NEW rec, NEW iState, NEW rStatus, NEW reprice,
           NEW b, b = Branch(rec, iState, rStatus, reprice),
           b \in {"retire", "finish", "abort"},
           pass.view \in {"unavailable", "gone", "open", "locking", "cancelled"}
    PROVE  \/ pass.view = "unavailable" /\ P!canContinueWithoutBook(rec, iState)
           \/ now >= Expiry
           \/ pass.view \in {"locking", "cancelled"}
           \/ pass.view = "gone" /\ (rec.sel # Null \/ rec.fill # Null)
<1> DEFINE d == P!decide(PolicyInput(rec, iState, rStatus))
           goesOn == P!canContinueWithoutBook(rec, iState)
<1> HIDE DEF d, goesOn
<1> QED BY DEF Branch, d, goesOn

\* A pass that may go on without the book has a fill that was acknowledged.
LEMMA GoesOnAcknowledged ==
    ASSUME SecretInv, disk # Null, NEW iOk, iOk => disk.secret # Null,
           P!canContinueWithoutBook(disk, IF iOk THEN iStateOf(disk) ELSE Null)
    PROVE  disk.fillAcknowledged
<1>1. disk.lockSentAt # Null => disk.fillAcknowledged
  BY DEF SecretInv, RecordAgrees
<1>2. CASE disk.fillAcknowledged \/ disk.lockSentAt # Null
  BY <1>1, <1>2
<1>3. CASE P!chainExposed(IF iOk THEN iStateOf(disk) ELSE Null)
  <2>1. iOk /\ legs[disk.secret] # "None"
    BY <1>3 DEF P!chainExposed, iStateOf
  <2>2. disk.secret \in Secrets
    <3>1. disk.secret \in 1 .. minted /\ minted \in 0 .. MaxSecrets /\ MaxSecrets \in Nat
      BY <2>1, OrderAssumption DEF SecretInv, RecordAgrees, ChainTyped
    <3> QED BY <3>1 DEF Secrets
  <2>3. PICK l \in locks : l.secret = disk.secret
    BY <2>1, <2>2 DEF SecretInv, ChainTyped
  <2>4. disk.lockSentAt # Null
    BY <2>3 DEF SecretInv, LocksMarked
  <2> QED BY <1>1, <2>4
<1> QED BY <1>2, <1>3 DEF P!canContinueWithoutBook

LEMMA MakerDecidesListing ==
    ASSUME IInv, SecretInv, ListingInv, NEW iOk, iOk => disk.secret # Null,
           NEW rStatus, NEW reprice, MakerDecides(iOk, rStatus, reprice)
    PROVE  ListingInv'
<1> DEFINE iState == IF iOk THEN iStateOf(disk) ELSE Null
           b == Branch(disk, iState, rStatus, reprice)
<1>1. disk # Null /\ disk \in Records /\ pass.at = "read"
  BY DEF IInv, TypesOK, PassAgrees, MakerDecides
<1>2. now' = now /\ net' = net /\ book' = book
  BY DEF MakerDecides, bookVars
<1>3. RowFollows(book, book')
  BY <1>2, BookStays
<1>4. pass.view \in {"unavailable", "gone", "open", "locking", "cancelled"}
  BY <1>1 DEF ListingInv, ViewHolds
<1>5. CASE b \in {"retire", "finish", "abort"}
  <2>1. disk' = Null /\ pass'.at = "idle"
    BY <1>5 DEF MakerDecides, retire, Idle
  <2>2. Closed
    <3>1. CASE pass.view = "unavailable" /\ P!canContinueWithoutBook(disk, iState)
      <4>1. disk.fillAcknowledged
        BY <1>1, <3>1, GoesOnAcknowledged
      <4> QED BY <1>1, <4>1 DEF ListingInv, RecordOutlives
    <3>2. CASE now >= Expiry
      BY <3>2 DEF Closed
    <3>3. CASE pass.view \in {"locking", "cancelled"}
      BY <1>1, <3>3 DEF ListingInv, ViewHolds
    <3>4. CASE pass.view = "gone" /\ (disk.sel # Null \/ disk.fill # Null)
      <4>1. disk.sel # Null
        BY <1>1, <3>4 DEF SecretInv, RecordAgrees
      <4> QED BY <1>1, <3>4, <4>1 DEF ListingInv, ViewHolds, Closed
    <3> QED BY <1>4, <1>5, <3>1, <3>2, <3>3, <3>4, BranchRetires
  <2>3. Closed'
    BY <1>2, <2>2 DEF Closed
  <2> QED BY <1>2, <1>3, <2>1, <2>3, RetiringStep
<1>6. CASE b \notin {"retire", "finish", "abort"}
  <2>1. disk' = IF b = "select" THEN Deselected(disk)
                ELSE IF b = "giveUp" THEN CancelSigned(disk) ELSE disk
    BY <1>6 DEF MakerDecides, persist
  <2>2. /\ disk' \in Records
        /\ disk'.sel = disk.sel \/ disk'.sel = Null
        /\ disk'.fillAcknowledged = disk.fillAcknowledged
    BY <1>1, <2>1 DEF Deselected, CancelSigned, Records
  <2>3. disk' # Null
    BY <2>2, NullAssumption
  <2>4. pass'.at # "read" /\ (pass'.at = "cancel or gone" => b = "giveUp")
    BY <1>6, BranchAgrees DEF MakerDecides, At, Idle
  <2>5. b = "giveUp" => pass.view = "open"
    BY DecideIs DEF Branch, P!Decisions
  <2>6. ViewHolds'
    BY <1>1, <1>2, <2>4, <2>5 DEF ListingInv, ViewHolds, Appeared
  <2> QED BY <1>1, <1>2, <1>3, <2>2, <2>3, <2>6, RecordingStep
<1> QED BY <1>5, <1>6

LEMMA MakerSelectsListing ==
    ASSUME IInv, SecretInv, ListingInv, MakerSelects
    PROVE  ListingInv'
<1>1. disk # Null /\ disk \in Records /\ now \in Int /\ minted \in Int
  BY DEF IInv, TypesOK, PassAgrees, MakerSelects
<1>2. now' = now /\ net' = net /\ book' = Swept(book)
  BY DEF MakerSelects
<1>3. RowFollows(book, book')
  BY <1>2, BookSwept
<1>4. CASE UNCHANGED <<disk, minted>> /\ pass' = Idle
  <2>1. ViewHolds'
    BY <1>4 DEF ViewHolds, Idle
  <2> QED BY <1>1, <1>2, <1>3, <1>4, <2>1, RecordingStep
<1>5. CASE \E i \in Earliest :
             /\ disk' = [disk EXCEPT !.sel = i, !.secret = minted + 1, !.selectedAt = now]
             /\ pass' = At("sign")
  <2>1. PICK i \in Candidates :
             /\ disk' = [disk EXCEPT !.sel = i, !.secret = minted + 1, !.selectedAt = now]
             /\ pass' = At("sign")
    BY <1>5 DEF Earliest
  <2>2. i \in Intents /\ book'.status = "open"
    BY <1>2 DEF Candidates
  <2>3. /\ disk' \in Records /\ disk'.fillAcknowledged = disk.fillAcknowledged
    <3>1. minted + 1 \in Int
      BY <1>1
    <3> QED BY <1>1, <2>1, <2>2, <3>1 DEF Records
  <2>4. disk' # Null
    BY <2>3, NullAssumption
  <2>5. ViewHolds'
    BY <2>1 DEF ViewHolds, At, Idle
  <2>6. Appeared'
    BY <2>2 DEF Appeared
  <2> QED BY <1>1, <1>2, <1>3, <2>3, <2>4, <2>5, <2>6, RecordingStep
<1> QED BY <1>4, <1>5 DEF MakerSelects, persist

LEMMA MakerSignsListing ==
    ASSUME IInv, SecretInv, ListingInv, MakerSigns
    PROVE  ListingInv'
<1>1. disk # Null /\ disk \in Records /\ now \in Int
  BY DEF IInv, TypesOK, PassAgrees, MakerSigns
<1>2. now' = now /\ net' = net /\ book' = book
  BY DEF MakerSigns, bookVars
<1>3. RowFollows(book, book')
  BY <1>2, BookStays
<1>4. disk' \in {disk, CancelSigned(disk), FillSigned(disk)}
  BY DEF MakerSigns, persist
<1>5. /\ disk' \in Records /\ disk'.sel = disk.sel
      /\ disk'.fillAcknowledged = disk.fillAcknowledged
  <2>1. FillOf(disk) \in Fills
    BY <1>1, FillSignedIs, OrderAssumption
  <2> QED BY <1>1, <1>4, <2>1 DEF CancelSigned, FillSigned, Records
<1>6. disk' # Null
  BY <1>5, NullAssumption
<1>7. pass'.at \in {"idle", "cancel", "fill"}
  <2>1. \/ pass' = Idle
        \/ pass' = At("cancel")
        \/ pass' = [At("fill") EXCEPT !.fill = FillOf(disk)]
    BY DEF MakerSigns
  <2>2. ASSUME pass' = Idle PROVE pass'.at = "idle"
    BY <2>2 DEF Idle
  <2>3. ASSUME pass' = At("cancel") PROVE pass'.at = "cancel"
    BY <2>3 DEF At, Idle
  <2>4. ASSUME pass' = [At("fill") EXCEPT !.fill = FillOf(disk)] PROVE pass'.at = "fill"
    BY <2>4 DEF At, Idle
  <2> QED BY <2>1, <2>2, <2>3, <2>4
<1>8. ViewHolds'
  BY <1>7 DEF ViewHolds
<1> QED BY <1>1, <1>2, <1>3, <1>5, <1>6, <1>8, RecordingStep

\* What a pass sends is a request of the protocol.
LEMMA RequestSendable ==
    ASSUME IInv, SecretInv, Requesting
    PROVE  Sendable(Request)
<1>1. CASE pass.at = "create"
  BY <1>1 DEF Request, Sendable
<1>2. CASE pass.at \in {"cancel", "cancel or gone"}
  BY <1>2 DEF Request, Sendable
<1>3. CASE pass.at = "fill"
  <2>1. disk # Null /\ disk \in Records /\ disk.fill # Null /\ pass.fill = disk.fill
    BY <1>3, RequestStates DEF IInv, PassAgrees
  <2>2. pass.fill \in Fills /\ pass.fill.selectedAt \in Nat
    BY <2>1 DEF Records, SecretInv, RecordAgrees
  <2>3. Request = Fill(pass.fill)
    BY <1>3 DEF Request
  <2>4. Fill(pass.fill).fill = pass.fill
    BY DEF Fill
  <2> QED BY <2>2, <2>3, <2>4 DEF Sendable
<1> QED BY <1>1, <1>2, <1>3 DEF Requesting

LEMMA RequestAnsweredListing ==
    ASSUME IInv, SecretInv, ListingInv, RequestAnswered
    PROVE  ListingInv'
<1>1. /\ Requesting /\ pass' = Idle /\ now' = now /\ net' = net
      /\ book' = Applied(Swept(book), Request)
  BY DEF RequestAnswered
<1>2. disk # Null /\ disk \in Records
  BY <1>1, RequestStates
<1>3. RowFollows(book, book')
  BY <1>1, RequestSendable, BookAsked
<1>4. pass'.at = "idle"
  BY <1>1 DEF Idle
<1>5. ViewHolds'
  BY <1>4 DEF ViewHolds
<1>6. CASE disk' = disk
  BY <1>1, <1>2, <1>3, <1>5, <1>6, RecordingStep
<1>7. CASE /\ pass.at = "fill"
           /\ disk' = Observed([disk EXCEPT !.fill = pass.fill], book')
  <2>1. [disk EXCEPT !.fill = pass.fill] = disk
    BY <1>2, <1>7 DEF IInv, PassAgrees, Records
  <2>2. /\ disk' # Null /\ disk'.sel = disk.sel
        /\ disk'.fillAcknowledged => disk.fillAcknowledged \/ book'.status = "locking"
    <3>1. PICK row : row = book'
      OBVIOUS
    <3>2. disk' = Observed(disk, row)
      BY <1>7, <2>1, <3>1
    <3> QED BY <1>2, <3>1, <3>2, ObservedSays, NullAssumption
  <2>3. disk'.fillAcknowledged => disk.fillAcknowledged \/ Closed'
    BY <2>2 DEF Closed
  <2> QED BY <1>1, <1>2, <1>3, <1>5, <2>2, <2>3, RecordingStep
<1>8. CASE /\ disk' = Null
           /\ \/ book'.status = "cancelled"
              \/ book'.status = "absent" /\ pass.at = "cancel or gone"
  <2>1. now \in Nat /\ now' \in Nat /\ now <= now'
    BY <1>1 DEF SecretInv, ChainTyped
  <2>2. pass.at = "cancel or gone" => Appeared'
    BY <1>3, <2>1, BookGoesOn DEF ListingInv, ViewHolds
  <2>3. Closed'
    BY <1>8, <2>2 DEF Closed, Appeared
  <2> QED BY <1>1, <1>3, <1>4, <1>8, <2>3, RetiringStep
<1> QED BY <1>1, <1>6, <1>7, <1>8 DEF RequestAnswered, persist, retire, Requesting

LEMMA MakerLocksListing ==
    ASSUME IInv, SecretInv, ListingInv, NEW bookUp \in BOOLEAN, MakerLocks(bookUp)
    PROVE  ListingInv'
<1>1. disk # Null /\ disk \in Records /\ now \in Int /\ disk.fillAcknowledged
  BY DEF IInv, TypesOK, PassAgrees, MakerLocks, SecretInv, PassKnows
<1>2. /\ now' = now /\ net' = net /\ pass' = Idle
      /\ book' = IF bookUp THEN Swept(book) ELSE book
  BY DEF MakerLocks
<1>3. RowFollows(book, book')
  BY <1>2, BookStays, BookSwept
<1>4. PICK seen \in Records : /\ seen.sel = disk.sel
                              /\ \/ disk' = disk
                                 \/ disk' = seen
                                 \/ disk' = [seen EXCEPT !.lockSentAt = now]
  <2>1. CASE bookUp
    BY <1>1, <2>1, ObservedSays DEF MakerLocks, persist
  <2>2. CASE ~bookUp
    BY <1>1, <2>2 DEF MakerLocks, persist
  <2> QED BY <2>1, <2>2
<1>5. disk' \in Records /\ disk'.sel = disk.sel
  BY <1>1, <1>4 DEF Records
<1>6. disk' # Null
  BY <1>5, NullAssumption
<1>7. ViewHolds'
  BY <1>2 DEF ViewHolds, Idle
<1> QED BY <1>1, <1>2, <1>3, <1>5, <1>6, <1>7, RecordingStep

LEMMA ListingNext == IInv /\ SecretInv /\ ListingInv /\ [Next]_vars => ListingInv'
<1> SUFFICES ASSUME IInv, SecretInv, ListingInv, [Next]_vars PROVE ListingInv'
  OBVIOUS
<1>1. now \in Nat /\ now <= now
  BY DEF SecretInv, ChainTyped
<1>2. Idle.at = "idle"
  BY DEF Idle
<1>3. ASSUME MakerRetiresExpired PROVE ListingInv'
  <2>1. /\ disk' = Null /\ pass'.at = "idle" /\ now >= Expiry
        /\ now' = now /\ net' = net /\ book' = book
    BY <1>3 DEF MakerRetiresExpired, retire, canRetireExpiredUnfundedQuote, bookVars
  <2>2. Closed'
    BY <2>1 DEF Closed
  <2> QED BY <2>1, <2>2, BookStays, RetiringStep
<1>4. ASSUME NEW read \in LegReads, NEW reprice,
             MakerDecides(read[1], read[2], reprice)
      PROVE  ListingInv'
  <2>1. disk # Null
    BY <1>4 DEF MakerDecides, IInv, PassAgrees
  <2>2. CASE disk.secret # Null
    BY <1>4, <2>2, MakerDecidesListing
  <2>3. CASE disk.secret = Null
    <3>1. read = <<FALSE, "None">>
      BY <2>3 DEF LegReads
    <3>2. read[1] = FALSE
      BY <3>1
    <3> QED BY <1>4, <3>2, MakerDecidesListing
  <2> QED BY <2>2, <2>3
<1>5. ASSUME Pass PROVE ListingInv'
  BY <1>3, <1>4, <1>5, MakerReadsListing, MakerLocksListing, MakerSelectsListing,
     MakerSignsListing, RequestAnsweredListing DEF Pass
<1>6. CASE RequestUnanswered
  <2>1. /\ Requesting /\ now' = now /\ book' = book /\ disk' = disk /\ pass' = Idle
        /\ net' = net \cup {Request}
    BY <1>6 DEF RequestUnanswered, bookVars
  <2>2. \A req \in net' : req \in net \/ Sendable(req)
    BY <2>1, RequestSendable
  <2> QED BY <1>1, <1>2, <2>1, <2>2, BookStays, ElsewhereListing
<1>7. CASE PassThrows \/ Crash
  <2>1. now' = now /\ book' = book /\ disk' = disk /\ pass' = Idle /\ net' = net
    BY <1>7 DEF PassThrows, Crash, bookVars
  <2> QED BY <1>1, <1>2, <2>1, BookStays, ElsewhereListing
<1>8. CASE StopForDrain \/ Restart \/ UNCHANGED vars
  <2>1. now' = now /\ book' = book /\ disk' = disk /\ pass' = pass /\ net' = net
    BY <1>8 DEF StopForDrain, Restart, bookVars, vars
  <2> QED BY <1>1, <2>1, BookStays, ElsewhereListing
<1>9. ASSUME NEW req \in net, Delivered(req) PROVE ListingInv'
  <2>1. /\ now' = now /\ disk' = disk /\ pass' = pass /\ net' = net \ {req}
        /\ book' = Applied(Swept(book), req)
    BY <1>9 DEF Delivered
  <2>2. Sendable(req)
    BY DEF ListingInv, BookTyped
  <2>3. RowFollows(book, book')
    BY <2>1, <2>2, BookAsked
  <2> QED BY <1>1, <2>1, <2>3, ElsewhereListing
<1>10. CASE BookSweeps
  <2>1. /\ now' = now /\ disk' = disk /\ pass' = pass /\ net' = net
        /\ book' = Swept(book)
    BY <1>10 DEF BookSweeps
  <2> QED BY <1>1, <2>1, BookSwept, ElsewhereListing
<1>11. ASSUME NEW i \in Intents, SubmitIntent(i) \/ TakerWalksAway(i) PROVE ListingInv'
  <2>1. now' = now /\ book' = book /\ disk' = disk /\ pass' = pass /\ net' = net
    BY <1>11 DEF SubmitIntent, TakerWalksAway
  <2> QED BY <1>1, <2>1, BookStays, ElsewhereListing
<1>12. ASSUME NEW l \in locks, LockMines(l) \/ LegSettles(l) PROVE ListingInv'
  <2>1. now' = now /\ book' = book /\ disk' = disk /\ pass' = pass /\ net' = net
    BY <1>12 DEF LockMines, LegSettles, bookVars
  <2> QED BY <1>1, <2>1, BookStays, ElsewhereListing
<1>13. CASE Tick
  <2>1. now' = now + 1 /\ book' = book /\ disk' = disk /\ pass' = pass /\ net' = net
    BY <1>13 DEF Tick, bookVars
  <2>2. now' \in Nat /\ now <= now'
    BY <1>1, <2>1
  <2> QED BY <2>1, <2>2, BookStays, ElsewhereListing
<1> QED BY <1>5, <1>6, <1>7, <1>8, <1>9, <1>10, <1>11, <1>12, <1>13 DEF Next

LEMMA ListingInit == Init => ListingInv
<1> SUFFICES ASSUME Init PROVE ListingInv
  OBVIOUS
<1>1. BookTyped
  BY NoRowIs DEF Init, BookTyped
<1>2. NewRecord.sel = Null /\ ~NewRecord.fillAcknowledged /\ NewRecord # Null
  <2>1. NewRecord \in Records
    BY DEF NewRecord, Records
  <2> QED BY <2>1, NullAssumption DEF NewRecord
<1>3. RecordOutlives /\ ViewHolds
  BY <1>2 DEF Init, RecordOutlives, ViewHolds, At, Idle
<1> QED BY <1>1, <1>3 DEF ListingInv

LEMMA ListingInductive == Spec => []ListingInv
BY Inductive, SecretInductive, ListingInit, ListingNext, PTL DEF Spec

LEMMA NoGhostFrom == SecretInv /\ ListingInv => NoGhostListing
<1> SUFFICES ASSUME SecretInv, ListingInv, disk = Null
             PROVE  /\ Swept(book).status # "open"
                    /\ \A req \in net : Applied(Swept(book), req).status # "open"
  BY DEF NoGhostListing
<1>1. Closed /\ BookTyped /\ now \in Nat
  BY DEF ListingInv, RecordOutlives, SecretInv, ChainTyped
<1> QED BY <1>1, ClosedIsEnough

\* The daemon never retires a record whose listing is open on the book, or
\* can be opened again by a request of its own that is still under way:
\* it retires on a terminal row it has seen, on a row that was swept after
\* the expiry, or past the expiry itself, and the book keeps a closed row at
\* least that long (store.ts canPurgeCancelled(), canPurgeLocking();
\* index.ts, the "ghost row" of a failed reprice cancel).
THEOREM NoGhost == Spec => []NoGhostListing
BY SecretInductive, ListingInductive, NoGhostFrom, PTL

-----------------------------------------------------------------------------
(* One daemon writes the state file.  MakerOrder has one process that      *)
(* reads and writes `disk`; that it is one is what StateProcessLease       *)
(* promises, and this is the lease of ProcessLease, for any number of      *)
(* processes and any assignment of PID namespaces, as long as no process   *)
(* is killed or stalled for a TTL while it holds the recovery guard, and a *)
(* holder's heartbeat keeps up.                                            *)

\* Whoever is in the guarded section owns the guard file, which is as fresh as
\* the section, so nobody else takes the guard over.
GuardExclusive ==
    /\ \A p \in Procs : pc[p] \in InGuard =>
          /\ guard # NoFile /\ guard.by = p
          /\ pc[p] # "guardWrite" => guard.ok
    /\ guard # NoFile => pc[guard.by] \in InGuard /\ guard.at = clock
    /\ \A p \in Procs : pc[p] # "takeover"

\* A holder's lease is whole, its own and fresh.
HolderOnFile ==
    \A p \in Procs : Holds(p) =>
        lease # NoFile /\ lease.ok /\ lease.by = p /\ clock - lease.at < TTL

Installing == {"create", "replace", "leaseWrite", "confirm"}

\* While a starter installs its record nobody holds the lease.
NoHolderWhileInstalling ==
    \A p \in Procs : pc[p] \in Installing =>
        /\ \A q \in Procs : ~Holds(q)
        /\ pc[p] \in {"leaseWrite", "confirm"} => lease # NoFile /\ lease.by = p
        /\ pc[p] = "confirm" => lease.ok /\ lease.at = clock

LeaseInv == TypeOK /\ GuardExclusive /\ HolderOnFile /\ NoHolderWhileInstalling

USE DEF Places, InGuard, Owning

LEMMA InitLeaseInv == LeaseInit => LeaseInv
  BY DEF LeaseInit, LeaseInv, TypeOK, GuardExclusive, HolderOnFile,
         NoHolderWhileInstalling, Holds, Installing

\* A holder is running, in another process's eyes too.
LEMMA HolderIsLive ==
  ASSUME LeaseInv, NEW p \in Procs, NEW q \in Procs, Holds(q)
  PROVE  IsLive(lease, p, TTL)
  BY DEF LeaseInv, HolderOnFile, IsLive, Holds, Running

\* A guard file is never judged dead.
LEMMA GuardIsLive ==
  ASSUME LeaseInv, NEW p \in Procs, guard # NoFile, guard.ok
  PROVE  IsLive(guard, p, GuardTTL)
<1>1. guard \in File /\ clock \in Nat
  BY DEF LeaseInv, TypeOK
<1>2. pc[guard.by] \in InGuard /\ guard.at = clock
  BY DEF LeaseInv, GuardExclusive
<1>3. Running(guard.by)
  BY <1>2 DEF Running
<1>4. clock - guard.at < GuardTTL
  BY <1>1, <1>2, LeaseAssumption
<1> QED
  BY <1>3, <1>4 DEF IsLive

\* The files a process creates.
LEMMA Fresh ==
  ASSUME clock \in Nat
  PROVE  \A p \in Procs :
           /\ Empty(p) \in File /\ Empty(p) # NoFile
           /\ Empty(p).by = p /\ Empty(p).at = clock
           /\ Record(p) \in File /\ Record(p) # NoFile
           /\ Record(p).by = p /\ Record(p).at = clock /\ Record(p).ok
<1> TAKE p \in Procs
<1>1. Empty(p) \in File /\ Record(p) \in File
  BY DEF Empty, Record, File
<1>2. NoFile \notin File
  BY LeaseAssumption DEF File
<1>3. Empty(p).by = p /\ Empty(p).at = clock
  BY DEF Empty
<1>4. Record(p).by = p /\ Record(p).at = clock
  BY DEF Record
<1>5. Record(p).ok
  BY DEF Record
<1>6. Empty(p) # NoFile /\ Record(p) # NoFile
  BY <1>1, <1>2
<1> QED
  BY <1>1, <1>3, <1>4, <1>5, <1>6

\* Types are preserved.
LEMMA NextTypeOK == TypeOK /\ LeaseNext => TypeOK'
<1> SUFFICES ASSUME TypeOK, LeaseNext PROVE TypeOK'
  OBVIOUS
<1>0. \A p \in Procs : Empty(p) \in File /\ Record(p) \in File
  BY Fresh DEF TypeOK
<1>s. site' = site
  BY DEF LeaseNext
<1> USE <1>s DEF TypeOK, Goto, ReleaseThen
<1>a. ASSUME NEW p \in Procs, Start(p) \/ Acquires(p) PROVE TypeOK'
  <2>1. CASE Start(p)
    BY <2>1 DEF Start
  <2>2. CASE ReadLease(p)
    BY <2>2 DEF ReadLease
  <2>3. CASE TryCreateGuard(p)
    BY <1>0, <2>3 DEF TryCreateGuard
  <2>4. CASE WriteGuard(p)
    BY <1>0, <2>4 DEF WriteGuard
  <2>5. CASE JudgeGuard(p)
    BY <2>5 DEF JudgeGuard
  <2>6. CASE TakeOverGuard(p)
    BY <1>0, <2>6 DEF TakeOverGuard
  <2>7. CASE CheckLease(p)
    BY <2>7 DEF CheckLease
  <2>8. CASE TryCreateLease(p)
    BY <1>0, <2>8 DEF TryCreateLease
  <2>9. CASE WriteLease(p)
    BY <1>0, <2>9 DEF WriteLease
  <2>10. CASE ReplaceLease(p)
    BY <1>0, <2>10 DEF ReplaceLease
  <2>11. CASE ConfirmLease(p)
    BY <2>11 DEF ConfirmLease
  <2>12. CASE ReleaseGuard(p)
    BY <2>12 DEF ReleaseGuard
  <2>13. CASE UnlinkGuard(p)
    BY <2>13 DEF UnlinkGuard
  <2> QED
    BY <1>a, <2>1, <2>2, <2>3, <2>4, <2>5, <2>6, <2>7, <2>8, <2>9, <2>10, <2>11, <2>12, <2>13 DEF Acquires
<1>b. ASSUME NEW p \in Procs, Works(p) \/ Exit(p) \/ Killed(p) PROVE TypeOK'
  <2>1. CASE Beat(p)
    BY <2>1 DEF Beat
  <2>2. CASE Stamp(p)
    BY <2>2 DEF Stamp, File
  <2>3. CASE AssertOwned(p)
    BY <2>3 DEF AssertOwned
  <2>4. CASE Write(p)
    BY <2>4 DEF Write
  <2>5. CASE Close(p)
    BY <2>5 DEF Close
  <2>6. CASE UnlinkLease(p)
    BY <2>6 DEF UnlinkLease
  <2>7. CASE Exit(p)
    BY <2>7 DEF Exit
  <2>8. CASE Killed(p)
    BY <2>8 DEF Killed
  <2> QED
    BY <1>b, <2>1, <2>2, <2>3, <2>4, <2>5, <2>6, <2>7, <2>8 DEF Works
<1>c. CASE ClockTicks
  BY <1>c DEF ClockTicks
<1> QED
  BY <1>a, <1>b, <1>c DEF LeaseNext, Step

\* The guarded section stays exclusive.
LEMMA NextGuardExclusive == Orderly /\ LeaseInv /\ LeaseNext => GuardExclusive'
<1> SUFFICES ASSUME Orderly, LeaseInv, LeaseNext PROVE GuardExclusive'
  OBVIOUS
<1> USE DEF LeaseInv, TypeOK, File, GuardExclusive, Goto, ReleaseThen
<1>a. ASSUME NEW p \in Procs, Start(p) \/ Acquires(p) PROVE GuardExclusive'
  <2>1. CASE Start(p)
    BY <2>1 DEF Start
  <2>2. CASE ReadLease(p)
    BY <2>2 DEF ReadLease
  <2>3. CASE TryCreateGuard(p)
    BY <2>3, Fresh DEF TryCreateGuard
  <2>4. CASE WriteGuard(p)
    BY <2>4, Fresh DEF WriteGuard
  <2>5. CASE JudgeGuard(p)
    BY <2>5, GuardIsLive DEF JudgeGuard
  <2>6. CASE TakeOverGuard(p)
    BY <2>6 DEF TakeOverGuard
  <2>7. CASE CheckLease(p)
    BY <2>7 DEF CheckLease
  <2>8. CASE TryCreateLease(p)
    BY <2>8 DEF TryCreateLease
  <2>9. CASE WriteLease(p)
    BY <2>9 DEF WriteLease
  <2>10. CASE ReplaceLease(p)
    BY <2>10 DEF ReplaceLease
  <2>11. CASE ConfirmLease(p)
    BY <2>11 DEF ConfirmLease
  <2>12. CASE ReleaseGuard(p)
    BY <2>12 DEF ReleaseGuard, Mine
  <2>13. CASE UnlinkGuard(p)
    BY <2>13 DEF UnlinkGuard
  <2> QED
    BY <1>a, <2>1, <2>2, <2>3, <2>4, <2>5, <2>6, <2>7, <2>8, <2>9, <2>10, <2>11, <2>12, <2>13 DEF Acquires
<1>b. ASSUME NEW p \in Procs, Works(p) \/ Exit(p) \/ Killed(p) PROVE GuardExclusive'
  <2>1. CASE Beat(p)
    BY <2>1 DEF Beat
  <2>2. CASE Stamp(p)
    BY <2>2 DEF Stamp
  <2>3. CASE AssertOwned(p)
    BY <2>3 DEF AssertOwned
  <2>4. CASE Write(p)
    BY <2>4 DEF Write
  <2>5. CASE Close(p)
    BY <2>5 DEF Close
  <2>6. CASE UnlinkLease(p)
    BY <2>6 DEF UnlinkLease
  <2>7. CASE Exit(p)
    BY <2>7 DEF Exit
  <2>8. CASE Killed(p)
    BY <2>8 DEF Killed, Orderly, Running
  <2> QED
    BY <1>b, <2>1, <2>2, <2>3, <2>4, <2>5, <2>6, <2>7, <2>8 DEF Works
<1>c. CASE ClockTicks
  BY <1>c DEF ClockTicks, Prompt, Orderly
<1> QED
  BY <1>a, <1>b, <1>c DEF LeaseNext, Step

\* A holder keeps its file.
LEMMA NextHolderOnFile == Orderly /\ LeaseInv /\ LeaseNext => HolderOnFile'
<1> SUFFICES ASSUME Orderly, LeaseInv, LeaseNext PROVE HolderOnFile'
  OBVIOUS
<1> USE DEF LeaseInv, TypeOK, File, HolderOnFile, NoHolderWhileInstalling, Holds, Installing, Goto, ReleaseThen
<1>a. ASSUME NEW p \in Procs, Start(p) \/ Acquires(p) PROVE HolderOnFile'
  <2>1. CASE Start(p)
    BY <2>1 DEF Start
  <2>2. CASE ReadLease(p)
    BY <2>2 DEF ReadLease
  <2>3. CASE TryCreateGuard(p)
    BY <2>3 DEF TryCreateGuard
  <2>4. CASE WriteGuard(p)
    BY <2>4 DEF WriteGuard
  <2>5. CASE JudgeGuard(p)
    BY <2>5 DEF JudgeGuard
  <2>6. CASE TakeOverGuard(p)
    BY <2>6 DEF TakeOverGuard
  <2>7. CASE CheckLease(p)
    BY <2>7 DEF CheckLease
  <2>8. CASE TryCreateLease(p)
    BY <2>8 DEF TryCreateLease, Empty
  <2>9. CASE WriteLease(p)
    BY <2>9 DEF WriteLease, Record
  <2>10. CASE ReplaceLease(p)
    BY <2>10 DEF ReplaceLease, Record
  <2>11. CASE ConfirmLease(p)
    BY <2>11, LeaseAssumption DEF ConfirmLease, Mine
  <2>12. CASE ReleaseGuard(p)
    BY <2>12 DEF ReleaseGuard, Mine, GuardExclusive
  <2>13. CASE UnlinkGuard(p)
    BY <2>13 DEF UnlinkGuard
  <2> QED
    BY <1>a, <2>1, <2>2, <2>3, <2>4, <2>5, <2>6, <2>7, <2>8, <2>9, <2>10, <2>11, <2>12, <2>13 DEF Acquires
<1>b. ASSUME NEW p \in Procs, Works(p) \/ Exit(p) \/ Killed(p) PROVE HolderOnFile'
  <2>1. CASE Beat(p)
    BY <2>1 DEF Beat, Displaced, Mine
  <2>2. CASE Stamp(p)
    BY <2>2, LeaseAssumption DEF Stamp
  <2>3. CASE AssertOwned(p)
    BY <2>3 DEF AssertOwned, FencePasses, Mine
  <2>4. CASE Write(p)
    BY <2>4 DEF Write
  <2>5. CASE Close(p)
    BY <2>5 DEF Close, Mine
  <2>6. CASE UnlinkLease(p)
    BY <2>6 DEF UnlinkLease
  <2>7. CASE Exit(p)
    BY <2>7 DEF Exit
  <2>8. CASE Killed(p)
    BY <2>8 DEF Killed
  <2> QED
    BY <1>b, <2>1, <2>2, <2>3, <2>4, <2>5, <2>6, <2>7, <2>8 DEF Works
<1>c. CASE ClockTicks
  BY <1>c DEF ClockTicks, Prompt, Orderly
<1> QED
  BY <1>a, <1>b, <1>c DEF LeaseNext, Step

\* Nobody holds the lease while a record is being installed.
LEMMA NextNoHolderWhileInstalling == Orderly /\ LeaseInv /\ LeaseNext => NoHolderWhileInstalling'
<1> SUFFICES ASSUME Orderly, LeaseInv, LeaseNext PROVE NoHolderWhileInstalling'
  OBVIOUS
<1> USE DEF LeaseInv, TypeOK, File, GuardExclusive, NoHolderWhileInstalling, Holds, Installing, Goto, ReleaseThen
<1>a. ASSUME NEW p \in Procs, Start(p) \/ Acquires(p) PROVE NoHolderWhileInstalling'
  <2>1. CASE Start(p)
    BY <2>1 DEF Start
  <2>2. CASE ReadLease(p)
    BY <2>2 DEF ReadLease
  <2>3. CASE TryCreateGuard(p)
    BY <2>3 DEF TryCreateGuard
  <2>4. CASE WriteGuard(p)
    BY <2>4 DEF WriteGuard
  <2>5. CASE JudgeGuard(p)
    BY <2>5 DEF JudgeGuard
  <2>6. CASE TakeOverGuard(p)
    BY <2>6 DEF TakeOverGuard
  <2>7. CASE CheckLease(p)
    BY <2>7, HolderIsLive DEF CheckLease, LiveUnderGuard
  <2>8. CASE TryCreateLease(p)
    BY <2>8, Fresh DEF TryCreateLease
  <2>9. CASE WriteLease(p)
    BY <2>9, ZenonT(60) DEF WriteLease, Record
  <2>10. CASE ReplaceLease(p)
    BY <2>10, ZenonT(60) DEF ReplaceLease, Record
  <2>11. CASE ConfirmLease(p)
    BY <2>11 DEF ConfirmLease
  <2>12. CASE ReleaseGuard(p)
    BY <2>12 DEF ReleaseGuard, Mine
  <2>13. CASE UnlinkGuard(p)
    BY <2>13 DEF UnlinkGuard
  <2> QED
    BY <1>a, <2>1, <2>2, <2>3, <2>4, <2>5, <2>6, <2>7, <2>8, <2>9, <2>10, <2>11, <2>12, <2>13 DEF Acquires
<1>b. ASSUME NEW p \in Procs, Works(p) \/ Exit(p) \/ Killed(p) PROVE NoHolderWhileInstalling'
  <2>1. CASE Beat(p)
    BY <2>1 DEF Beat
  <2>2. CASE Stamp(p)
    BY <2>2 DEF Stamp
  <2>3. CASE AssertOwned(p)
    BY <2>3 DEF AssertOwned
  <2>4. CASE Write(p)
    BY <2>4 DEF Write
  <2>5. CASE Close(p)
    BY <2>5 DEF Close
  <2>6. CASE UnlinkLease(p)
    BY <2>6 DEF UnlinkLease
  <2>7. CASE Exit(p)
    BY <2>7 DEF Exit
  <2>8. CASE Killed(p)
    BY <2>8 DEF Killed, Running
  <2> QED
    BY <1>b, <2>1, <2>2, <2>3, <2>4, <2>5, <2>6, <2>7, <2>8 DEF Works
<1>c. CASE ClockTicks
  BY <1>c DEF ClockTicks, Prompt, Orderly
<1> QED
  BY <1>a, <1>b, <1>c DEF LeaseNext, Step

\* In orderly operation two daemons never both believe that they own the
\* state file: the guard serialises the starters, a live holder's lease is
\* read as live under the guard whatever its PID namespace, and a record is
\* installed only while nobody holds one.
THEOREM Exclusive == LeaseSpec => []AtMostOneHolder
<1> DEFINE Inv == TypeOK /\ (Orderly => LeaseInv)
<1>0. LeaseInit => Inv
  BY InitLeaseInv DEF LeaseInv
<1>1. Inv /\ [LeaseNext]_leaseVars => Inv'
  <2> SUFFICES ASSUME Inv, [LeaseNext]_leaseVars PROVE Inv'
    OBVIOUS
  <2>0. Orderly' => Orderly
    BY DEF Orderly, LeaseNext, leaseVars
  <2>1. CASE LeaseNext
    BY <2>0, <2>1, NextTypeOK, NextGuardExclusive, NextHolderOnFile,
       NextNoHolderWhileInstalling DEF LeaseInv
  <2>2. CASE UNCHANGED leaseVars
    BY <2>0, <2>2 DEF leaseVars, LeaseInv, TypeOK, GuardExclusive, HolderOnFile,
                NoHolderWhileInstalling, Holds
  <2> QED
    BY <2>1, <2>2
<1>2. Inv => AtMostOneHolder
  BY DEF LeaseInv, HolderOnFile, AtMostOneHolder
<1> QED
  BY <1>0, <1>1, <1>2, PTL DEF LeaseSpec

\* Where a displaced process that has written late can be.
Fenced == {"held", "lost", "closed", "dead"}

\* A record is half written only by a process that is still writing it or died
\* doing so; after a late write the lease is never the writer's again.
FenceInv ==
    /\ \A p \in Procs :
          lease # NoFile /\ lease.by = p /\ ~lease.ok => pc[p] \in {"leaseWrite", "dead"}
    /\ \A p \in Procs :
          \/ late[p] = 0
          \/ late[p] = 1 /\ pc[p] \in Fenced /\ (lease = NoFile \/ lease.by # p)

\* Each action preserves it.
LEMMA NextFenceInv == TypeOK /\ FenceInv /\ LeaseNext => FenceInv'
<1> SUFFICES ASSUME TypeOK, FenceInv, LeaseNext PROVE FenceInv'
  OBVIOUS
<1> USE DEF TypeOK, File, FenceInv, Fenced, Goto, ReleaseThen
<1>a. ASSUME NEW p \in Procs, Start(p) \/ Acquires(p) PROVE FenceInv'
  <2>1. CASE Start(p)
    BY <2>1 DEF Start
  <2>2. CASE ReadLease(p)
    BY <2>2 DEF ReadLease
  <2>3. CASE TryCreateGuard(p)
    BY <2>3 DEF TryCreateGuard
  <2>4. CASE WriteGuard(p)
    BY <2>4 DEF WriteGuard
  <2>5. CASE JudgeGuard(p)
    BY <2>5 DEF JudgeGuard
  <2>6. CASE TakeOverGuard(p)
    BY <2>6 DEF TakeOverGuard
  <2>7. CASE CheckLease(p)
    BY <2>7 DEF CheckLease
  <2>8. CASE TryCreateLease(p)
    BY <2>8 DEF TryCreateLease, Empty
  <2>9. CASE WriteLease(p)
    BY <2>9 DEF WriteLease, Record
  <2>10. CASE ReplaceLease(p)
    BY <2>10 DEF ReplaceLease, Record
  <2>11. CASE ConfirmLease(p)
    BY <2>11 DEF ConfirmLease
  <2>12. CASE ReleaseGuard(p)
    BY <2>12 DEF ReleaseGuard
  <2>13. CASE UnlinkGuard(p)
    BY <2>13 DEF UnlinkGuard
  <2> QED
    BY <1>a, <2>1, <2>2, <2>3, <2>4, <2>5, <2>6, <2>7, <2>8, <2>9, <2>10, <2>11, <2>12, <2>13 DEF Acquires
<1>b. ASSUME NEW p \in Procs, Works(p) \/ Exit(p) \/ Killed(p) PROVE FenceInv'
  <2>1. CASE Beat(p)
    BY <2>1 DEF Beat, Mine
  <2>2. CASE Stamp(p)
    BY <2>2 DEF Stamp
  <2>3. CASE AssertOwned(p)
    BY <2>3 DEF AssertOwned, FencePasses, Mine
  <2>4. CASE Write(p)
    BY <2>4 DEF Write, Mine
  <2>5. CASE Close(p)
    BY <2>5 DEF Close, Mine
  <2>6. CASE UnlinkLease(p)
    BY <2>6 DEF UnlinkLease
  <2>7. CASE Exit(p)
    BY <2>7 DEF Exit
  <2>8. CASE Killed(p)
    BY <2>8 DEF Killed
  <2> QED
    BY <1>b, <2>1, <2>2, <2>3, <2>4, <2>5, <2>6, <2>7, <2>8 DEF Works
<1>c. CASE ClockTicks
  BY <1>c DEF ClockTicks
<1> QED
  BY <1>a, <1>b, <1>c DEF LeaseNext, Step

\* With any stalls, any kills and any interleaving of takeovers, a daemon that
\* lost its lease lands at most the one write whose fence it had passed.
THEOREM Fence == LeaseSpec => []AtMostOneLateWrite
<1>1. LeaseInit => TypeOK /\ FenceInv
  BY DEF LeaseInit, TypeOK, FenceInv
<1>2. TypeOK /\ FenceInv /\ [LeaseNext]_leaseVars => (TypeOK /\ FenceInv)'
  <2> SUFFICES ASSUME TypeOK, FenceInv, [LeaseNext]_leaseVars PROVE (TypeOK /\ FenceInv)'
    OBVIOUS
  <2>1. CASE LeaseNext
    BY <2>1, NextTypeOK, NextFenceInv
  <2>2. CASE UNCHANGED leaseVars
    BY <2>2 DEF leaseVars, TypeOK, FenceInv
  <2> QED
    BY <2>1, <2>2
<1>3. TypeOK /\ FenceInv => AtMostOneLateWrite
  BY DEF FenceInv, AtMostOneLateWrite
<1> QED
  BY <1>1, <1>2, <1>3, PTL DEF LeaseSpec
===============================================================================
