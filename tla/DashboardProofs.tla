--------------------------- MODULE DashboardProofs ---------------------------
(***************************************************************************)
(* Proofs about Dashboard: for any ways to start it, any number of exports *)
(* and any bounds on the probes of a target.                               *)
(***************************************************************************)
EXTENDS Dashboard, FiniteSetTheorems, TLAPS

(* main closes the printer when nobody probes any more.                    *)
DoneInv ==
  /\ mpc \notin {"setCancel", "wait"} => \A t \in Active : wpc[t] = "done"
  /\ closed => mpc \notin {"setCancel", "wait"}

(* How many probes of target t are counted and wait to be shown.           *)
Pending(t) == IF wpc[t] \in {"lock", "send"} THEN 1 ELSE 0

(* As long as the program may show them, the probes counted are those      *)
(* shown and the one that waits, which is the last of the log.             *)
ScreenOf(t) ==
  /\ wpc[t] \in {"lock", "send"} => /\ Len(log[t]) > 0
                                    /\ msg[t].verdict = log[t][Len(log[t])]
  /\ Cardinality(Of(shown, t)) + Pending(t) <= Len(log[t])
  /\ prog \in {"new", "running"} /\ wpc[t] # "done" =>
       Cardinality(Of(shown, t)) + Pending(t) = Len(log[t])
  /\ \A i \in Of(shown, t) :
       shown[i].verdict = log[t][Cardinality(Of(shown, t) \cap 1..i)]

ScreenInv == \A t \in Active : ScreenOf(t)

(* The same for the counters, by verdict.                                  *)
PendingTally(t, v) ==
  IF wpc[t] \in {"lock", "send"} /\ msg[t].verdict = v THEN 1 ELSE 0

CountersOf(t, v) ==
  /\ wpc[t] = "send" => msg[t].stat = stats[t]
  /\ Tallied(shown, t, v) + PendingTally(t, v) <= stats[t][v]
  /\ prog \in {"new", "running"} /\ wpc[t] # "done" =>
       Tallied(shown, t, v) + PendingTally(t, v) = stats[t][v]
  /\ Single => screen[v] = Tallied(shown, t, v)

CountersInv == \A t \in Active : \A v \in {"ok", "fail"} : CountersOf(t, v)

(* An export of a single target has its totals from the start; one of a    *)
(* fleet reads them while they grow.                                       *)
ExportOf(e) ==
  /\ xpc[e] = "none" => file[e].totals = <<>>
  /\ xpc[e] = "snapshot" => ~Single /\ Len(file[e].totals) < opts.targets
  /\ DOMAIN file[e].totals \subseteq Active
  /\ ~Single => \A t \in Active : \A v \in {"ok", "fail"} :
       Tallied(file[e].records, t, v) <= stats[t][v]
  /\ \A t \in DOMAIN file[e].totals : \A v \in {"ok", "fail"} :
       LET listed == Tallied(file[e].records, t, v)
           total == file[e].totals[t][v]
       IN  IF Single THEN total = listed ELSE total >= listed

ExportInv == \A e \in Exports : ExportOf(e)

IInv == TypeOK /\ DoneInv /\ ScreenInv /\ CountersInv /\ ExportInv
-----------------------------------------------------------------------------
LEMMA OptsIs ==
  ASSUME TypeOK
  PROVE  /\ opts.targets \in {1, 2} /\ opts.quit \in Nat /\ opts.maxFails \in Nat
         /\ Active \subseteq Targets /\ 1 \in Active
         /\ Single <=> Active = {1}
<1>1. opts \in Option
  BY DashboardAssumption DEF TypeOK
<1>2. opts.targets \in {1, 2} /\ opts.quit \in Nat /\ opts.maxFails \in Nat
  BY <1>1 DEF Option
<1> QED  BY <1>2 DEF Active, Targets, Single

LEMMA PositionsAreFinite ==
  ASSUME NEW rs \in Seq(Record), NEW t
  PROVE  /\ IsFiniteSet(Of(rs, t)) /\ Cardinality(Of(rs, t)) \in Nat
         /\ Of(rs, t) \subseteq 1..Len(rs)
<1>1. Of(rs, t) \subseteq 1..Len(rs) /\ IsFiniteSet(1..Len(rs))
  BY FS_Interval DEF Of
<1> QED  BY <1>1, FS_Subset, FS_CardinalityType

LEMMA TallyIsFinite ==
  ASSUME NEW rs \in Seq(Record), NEW t, NEW v
  PROVE  /\ IsFiniteSet({i \in Of(rs, t) : rs[i].verdict = v})
         /\ Tallied(rs, t, v) \in Nat
<1>1. IsFiniteSet({i \in Of(rs, t) : rs[i].verdict = v})
  BY PositionsAreFinite, FS_Subset
<1> QED  BY <1>1, FS_CardinalityType DEF Tallied

LEMMA NothingTallied ==
  ASSUME NEW t, NEW v
  PROVE  Of(<<>>, t) = {} /\ Cardinality(Of(<<>>, t)) = 0 /\ Tallied(<<>>, t, v) = 0
<1>1. Of(<<>>, t) = {} /\ {i \in Of(<<>>, t) : <<>>[i].verdict = v} = {}
  BY DEF Of
<1> QED  BY <1>1, FS_EmptySet DEF Tallied

(* A record is appended: the positions of its target get one more, the     *)
(* last.                                                                   *)
LEMMA AppendedPositions ==
  ASSUME NEW rs \in Seq(Record), NEW r \in Record, NEW t
  PROVE  /\ r.target = t => /\ Of(Append(rs, r), t) = Of(rs, t) \cup {Len(rs) + 1}
                            /\ Cardinality(Of(Append(rs, r), t)) = Cardinality(Of(rs, t)) + 1
         /\ r.target # t => Of(Append(rs, r), t) = Of(rs, t)
         /\ Len(rs) + 1 \notin Of(rs, t)
         /\ \A i \in Of(rs, t) : Append(rs, r)[i] = rs[i] /\ i \in 1..Len(rs)
         /\ Append(rs, r)[Len(rs) + 1] = r
<1> DEFINE n == Len(rs) + 1
<1>1. /\ n \notin Of(rs, t) /\ Append(rs, r)[n] = r
      /\ \A i \in 1..Len(rs) : Append(rs, r)[i] = rs[i]
      /\ DOMAIN Append(rs, r) = (1..Len(rs)) \cup {n} /\ DOMAIN rs = 1..Len(rs)
  BY DEF Of
<1>2. ASSUME r.target = t  PROVE Of(Append(rs, r), t) = Of(rs, t) \cup {n}
  BY <1>1, <1>2 DEF Of
<1>3. ASSUME r.target # t  PROVE Of(Append(rs, r), t) = Of(rs, t)
  BY <1>1, <1>3 DEF Of
<1>4. Cardinality(Of(rs, t) \cup {n}) = Cardinality(Of(rs, t)) + 1
  BY <1>1, PositionsAreFinite, FS_AddElement
<1> QED  BY <1>1, <1>2, <1>3, <1>4, PositionsAreFinite

LEMMA AppendedTally ==
  ASSUME NEW rs \in Seq(Record), NEW r \in Record, NEW t, NEW v
  PROVE  /\ r.target = t /\ r.verdict = v =>
              Tallied(Append(rs, r), t, v) = Tallied(rs, t, v) + 1
         /\ r.target # t \/ r.verdict # v =>
              Tallied(Append(rs, r), t, v) = Tallied(rs, t, v)
<1> DEFINE n == Len(rs) + 1
           old == {i \in Of(rs, t) : rs[i].verdict = v}
           new == {i \in Of(Append(rs, r), t) : Append(rs, r)[i].verdict = v}
<1>0. ASSUME r.target = t
      PROVE  new = {i \in Of(rs, t) \cup {n} : Append(rs, r)[i].verdict = v}
  BY <1>0, AppendedPositions
<1>5. /\ \A i \in Of(rs, t) : Append(rs, r)[i] = rs[i] /\ i # n
      /\ Append(rs, r)[n] = r
  BY AppendedPositions
<1>1. ASSUME r.target = t, r.verdict = v  PROVE new = old \cup {n}
  <2>1. new = {i \in Of(rs, t) \cup {n} : Append(rs, r)[i].verdict = v}
    BY <1>0, <1>1
  <2> HIDE DEF new, n
  <2> QED  BY <1>1, <1>5, <2>1
<1>2. ASSUME r.target = t, r.verdict # v  PROVE new = old
  <2>1. new = {i \in Of(rs, t) \cup {n} : Append(rs, r)[i].verdict = v}
    BY <1>0, <1>2
  <2> HIDE DEF new, n
  <2> QED  BY <1>2, <1>5, <2>1
<1>3. ASSUME r.target # t  PROVE new = old
  BY <1>3, AppendedPositions
<1>4. Cardinality(old \cup {n}) = Cardinality(old) + 1
  <2>1. n \notin old
    BY AppendedPositions
  <2>2. IsFiniteSet(old)
    BY TallyIsFinite
  <2> HIDE DEF old
  <2> QED  BY <2>1, <2>2, FS_AddElement
<1> QED  BY <1>1, <1>2, <1>3, <1>4 DEF Tallied
-----------------------------------------------------------------------------
LEMMA InitIInv == Init => IInv
<1> SUFFICES ASSUME Init  PROVE IInv
  OBVIOUS
<1>1. /\ <<>> \in Seq({"ok", "fail"}) /\ <<>> \in Seq(Record) /\ <<>> \in Seq(Tally)
      /\ NoTally \in Tally /\ "text" \in Formats
  BY DEF NoTally, Tally, Formats
<1>2. TypeOK
  BY <1>1 DEF Init, TypeOK, WPC, XPC, MPC, NoFile
<1>3. DoneInv
  BY DEF Init, DoneInv
<1>4. ScreenInv
  <2> SUFFICES ASSUME NEW t \in Active  PROVE ScreenOf(t)
    BY DEF ScreenInv
  <2>1. wpc[t] = "idle" /\ Len(log[t]) = 0
    BY <1>2, OptsIs DEF Init
  <2>2. Of(shown, t) = {} /\ Cardinality(Of(shown, t)) = 0
    BY NothingTallied DEF Init
  <2> QED  BY <2>1, <2>2 DEF ScreenOf, Pending
<1>5. CountersInv
  <2> SUFFICES ASSUME NEW t \in Active, NEW v \in {"ok", "fail"}
               PROVE  CountersOf(t, v)
    BY DEF CountersInv
  <2>1. t \in Targets
    BY <1>2, OptsIs
  <2>2. Tallied(shown, t, v) = 0
    BY NothingTallied DEF Init
  <2>3. wpc[t] = "idle" /\ stats[t][v] = 0 /\ screen[v] = 0
    BY <2>1 DEF Init, NoTally
  <2> QED  BY <2>2, <2>3 DEF CountersOf, PendingTally
<1>6. ExportInv
  <2> SUFFICES ASSUME NEW e \in Exports  PROVE ExportOf(e)
    BY DEF ExportInv
  <2>1. xpc[e] = "none" /\ file[e].totals = <<>> /\ file[e].records = <<>>
    BY DEF Init, NoFile
  <2>2. \A t \in Active : \A v \in {"ok", "fail"} :
          Tallied(file[e].records, t, v) = 0 /\ stats[t][v] \in Nat
    BY <1>2, <2>1, OptsIs, NothingTallied DEF TypeOK, Tally
  <2> QED  BY <2>1, <2>2 DEF ExportOf
<1> QED  BY <1>2, <1>3, <1>4, <1>5, <1>6 DEF IInv

-----------------------------------------------------------------------------
(* What the steps of main, of the event loop, of keys and exports leave    *)
(* alone.                                                                  *)
Aside == Loop \/ Key \/ Signal \/ Interrupt \/ (\E e \in Exports : Export(e))
         \/ Main \/ Exited

LEMMA AsideChanges ==
  ASSUME Aside \/ UNCHANGED vars
  PROVE  /\ UNCHANGED <<opts, wpc, log, stats, streak, msg, shown, screen>>
         /\ prog' \in {"new", "running"} => prog \in {"new", "running"}
<1>1. CASE Loop
  BY <1>1 DEF Loop, Start, LoopEnds, Restore, Cancel, probing, model, program, Listening
<1>2. CASE Key
  BY <1>2 DEF Key, OpenModal, Choose, CloseModal, PressQuit, Confirm, probing, model,
              program
<1>3. CASE Signal \/ Interrupt
  BY <1>3 DEF Signal, Interrupt, model, program
<1>4. CASE \E e \in Exports : Export(e)
  BY <1>4 DEF Export, Snapshot, SaveFileAsync, Copied, AsyncSave, CreateTables, Commit,
              probing, model, program
<1>5. CASE Main
  BY <1>5 DEF Main, SetCancel, Wait, Close, SendQuit, Exit, probing, model, program, Ended
<1>6. CASE Exited \/ UNCHANGED vars
  BY <1>6 DEF Exited, vars
<1> QED  BY <1>1, <1>2, <1>3, <1>4, <1>5, <1>6 DEF Aside

LEMMA ProbeType ==
  ASSUME TypeOK, NEW t \in Active, Probe(t)
  PROVE  TypeOK'
<1>1. t \in Targets /\ streak[t] \in Nat
  BY OptsIs DEF TypeOK
<1>2. CASE Begin(t) \/ Leave(t)
  BY <1>1, <1>2 DEF Begin, Leave, Goto, TypeOK, program, model, exporting, WPC
<1>3. CASE Count(t)
  <2>1. PICK v \in {"ok", "fail"} :
          /\ log' = [log EXCEPT ![t] = Append(@, v)]
          /\ msg' = [msg EXCEPT ![t].verdict = v]
          /\ stats' = [stats EXCEPT ![t][v] = @ + 1]
          /\ streak' = [streak EXCEPT ![t] = IF v = "ok" THEN 0 ELSE @ + 1]
    BY <1>3 DEF Count
  <2>2. log' \in [Targets -> Seq({"ok", "fail"})] /\ streak' \in [Targets -> Nat]
    BY <1>1, <2>1 DEF TypeOK
  <2>3. msg' \in [Targets -> [verdict : {"ok", "fail"}, stat : Tally]]
    BY <1>1, <2>1 DEF TypeOK
  <2>4. stats' \in [Targets -> Tally]
    <3>1. stats[t] \in [ok : Nat, fail : Nat] /\ stats \in [Targets -> Tally]
      BY <1>1 DEF TypeOK, Tally
    <3>2. CASE v = "ok"
      <4>1. [stats[t] EXCEPT !["ok"] = @ + 1] \in Tally
        BY <3>1 DEF Tally
      <4> QED  BY <2>1, <3>1, <3>2, <4>1
    <3>3. CASE v = "fail"
      <4>1. [stats[t] EXCEPT !["fail"] = @ + 1] \in Tally
        BY <3>1 DEF Tally
      <4> QED  BY <2>1, <3>1, <3>3, <4>1
    <3> QED  BY <3>2, <3>3
  <2>5. wpc' \in [Targets -> WPC]
    BY <1>1, <1>3 DEF Count, Goto, TypeOK, WPC
  <2> QED  BY <1>3, <2>2, <2>3, <2>4, <2>5 DEF Count, TypeOK, program, model, exporting
<1>4. CASE Lock(t)
  <2>1. wpc' \in [Targets -> WPC]
    <3>1. PICK l \in WPC : wpc' = [wpc EXCEPT ![t] = l]
      BY <1>4 DEF Lock, AfterShown, Goto, WPC
    <3> QED  BY <3>1 DEF TypeOK
  <2>2. msg' \in [Targets -> [verdict : {"ok", "fail"}, stat : Tally]]
    <3>1. msg' = msg \/ msg' = [msg EXCEPT ![t].stat = stats[t]]
      BY <1>4 DEF Lock
    <3>2. stats[t] \in Tally
      BY <1>1 DEF TypeOK
    <3>3. [msg EXCEPT ![t].stat = stats[t]]
            \in [Targets -> [verdict : {"ok", "fail"}, stat : Tally]]
      BY <1>1, <3>2 DEF TypeOK
    <3> QED  BY <3>1, <3>3 DEF TypeOK
  <2>3. mu' \in {Free, MainHolds} \cup Targets
    BY <1>1, <1>4 DEF Lock, TypeOK
  <2> QED  BY <1>4, <2>1, <2>2, <2>3 DEF Lock, TypeOK, program, model, exporting
<1>5. CASE Send(t)
  <2>1. wpc' \in [Targets -> WPC]
    BY <1>1, <1>5 DEF Send, AfterShown, Goto, TypeOK, WPC
  <2>2. [target |-> t, verdict |-> msg[t].verdict] \in Record /\ msg[t].stat \in Tally
    BY <1>1 DEF TypeOK, Record
  <2>3. shown' \in Seq(Record) /\ screen' \in Tally
    <3>1. shown \in Seq(Record) /\ screen \in Tally
      BY DEF TypeOK
    <3>2. \/ /\ shown' = Append(shown, [target |-> t, verdict |-> msg[t].verdict])
             /\ screen' \in {msg[t].stat, screen}
          \/ UNCHANGED <<shown, screen>>
      BY <1>5 DEF Send, Show
    <3> QED  BY <2>2, <3>1, <3>2
  <2> QED  BY <1>5, <2>1, <2>3 DEF Send, TypeOK, program, exporting
<1> QED  BY <1>2, <1>3, <1>4, <1>5 DEF Probe

LEMMA ConfirmType ==
  ASSUME TypeOK, NEW e \in Exports, Confirm(e)
  PROVE  TypeOK'
<1>1. Captured \in Seq(Tally)
  BY DEF Captured, TypeOK
<1>2. [format |-> modal, totals |-> Captured, records |-> shown]
        \in [format : Formats, totals : Seq(Tally), records : Seq(Record)]
  BY <1>1 DEF Confirm, TypeOK
<1>3. file' \in [Exports -> [format : Formats, totals : Seq(Tally), records : Seq(Record)]]
  BY <1>2 DEF Confirm, TypeOK
<1> QED  BY <1>3 DEF Confirm, TypeOK, probing, program, XPC

LEMMA ExportType ==
  ASSUME TypeOK, ExportInv, NEW e \in Exports, Export(e)
  PROVE  TypeOK'
<1>1. CASE Snapshot(e)
  <2> DEFINE t == Len(file[e].totals) + 1
  <2>1. t \in Active
    BY <1>1, OptsIs DEF Snapshot, ExportInv, ExportOf, TypeOK, Active
  <2>2. stats[t] \in Tally
    BY <2>1, OptsIs DEF TypeOK
  <2>3. file' \in [Exports -> [format : Formats, totals : Seq(Tally),
                                records : Seq(Record)]]
    <3>1. file[e] \in [format : Formats, totals : Seq(Tally), records : Seq(Record)]
      BY DEF TypeOK
    <3>2. Append(file[e].totals, stats[t]) \in Seq(Tally)
      BY <2>2, <3>1
    <3>3. file' = [file EXCEPT ![e].totals = Append(file[e].totals, stats[t])]
      BY <1>1 DEF Snapshot
    <3> QED  BY <3>1, <3>2, <3>3 DEF TypeOK
  <2> QED  BY <1>1, <2>3 DEF Snapshot, XGoto, TypeOK, probing, program, model, XPC
<1>2. CASE SaveFileAsync(e) \/ Copied(e) \/ AsyncSave(e) \/ CreateTables(e) \/ Commit(e)
  BY <1>2 DEF SaveFileAsync, Copied, AsyncSave, CreateTables, Commit, XGoto, TypeOK,
              probing, program, model, XPC
<1> QED  BY <1>1, <1>2 DEF Export

LEMMA TypeStep ==
  ASSUME TypeOK, ExportInv, [Next]_vars
  PROVE  TypeOK'
<1>1. CASE Loop
  BY <1>1 DEF Loop, Start, LoopEnds, Restore, Cancel, TypeOK, probing, program, model,
              exporting
<1>2. CASE OpenModal \/ Choose \/ CloseModal \/ PressQuit
  BY <1>2 DEF OpenModal, Choose, CloseModal, PressQuit, TypeOK, probing, program, model,
              exporting
<1>3. CASE Signal
  BY <1>3 DEF Signal, TypeOK, model, exporting
<1>4. CASE Interrupt
  BY <1>4 DEF Interrupt, TypeOK, program, model, XPC
<1>5. CASE Main
  BY <1>5 DEF Main, SetCancel, Wait, Close, SendQuit, Exit, MainGoto, TypeOK, probing,
              program, model, exporting, MPC, XPC
<1>6. CASE Exited \/ UNCHANGED vars
  BY <1>6 DEF Exited, vars, TypeOK
<1> QED  BY <1>1, <1>2, <1>3, <1>4, <1>5, <1>6, ProbeType, ConfirmType, ExportType
         DEF Next, Key

(* One target's probing leaves the states of the others alone.             *)
LEMMA OthersStay ==
  ASSUME TypeOK, NEW t \in Active, Probe(t), NEW u \in Active, u # t
  PROVE  /\ wpc'[u] = wpc[u] /\ log'[u] = log[u] /\ stats'[u] = stats[u]
         /\ msg'[u] = msg[u]
<1>1. t \in Targets /\ u \in Targets
  BY OptsIs
<1>2. wpc'[u] = wpc[u]
  <2>1. \E l : wpc' = [wpc EXCEPT ![t] = l]
    BY DEF Probe, Begin, Leave, Count, Lock, Send, AfterShown, Goto
  <2> QED  BY <1>1, <2>1 DEF TypeOK
<1>3. log'[u] = log[u] /\ stats'[u] = stats[u] /\ msg'[u] = msg[u]
  BY <1>1 DEF Probe, Begin, Leave, Count, Lock, Send, TypeOK
<1> QED  BY <1>2, <1>3

LEMMA DoneStep ==
  ASSUME TypeOK, DoneInv, [Next]_vars
  PROVE  DoneInv'
<1>1. CASE \E t \in Active : Probe(t)
  <2>1. PICK t \in Active : Probe(t)
    BY <1>1
  <2>2. wpc[t] # "done" /\ UNCHANGED <<opts, mpc, closed>>
    BY <2>1 DEF Probe, Begin, Leave, Count, Lock, Send
  <2> QED  BY <2>2 DEF DoneInv, Active
<1>2. CASE Main
  BY <1>2 DEF Main, SetCancel, Wait, Close, SendQuit, Exit, MainGoto, DoneInv, Active,
              probing
<1>3. CASE Loop \/ Key \/ Signal \/ Interrupt \/ (\E e \in Exports : Export(e))
           \/ Exited \/ UNCHANGED vars
  <2>1. UNCHANGED <<opts, wpc>>
    BY <1>3, AsideChanges DEF Aside
  <2>2. UNCHANGED <<mpc, closed>>
    BY <1>3 DEF Loop, Start, LoopEnds, Restore, Cancel, Key, OpenModal, Choose, CloseModal,
                PressQuit, Confirm, Signal, Interrupt, Export, Snapshot, SaveFileAsync,
                Copied, AsyncSave, CreateTables, Commit, Exited, vars
  <2> QED  BY <2>1, <2>2 DEF DoneInv, Active
<1> QED  BY <1>1, <1>2, <1>3 DEF Next

(* What a step of one target's probing may do to its part of the screen:   *)
(* a probe is counted, a message is built, a message is shown or dropped,  *)
(* or nothing.                                                             *)
LEMMA ScreenProbe ==
  ASSUME TypeOK, DoneInv, NEW t \in Active, Probe(t), ScreenOf(t)
  PROVE  ScreenOf(t)'
<1>1. t \in Targets /\ log[t] \in Seq({"ok", "fail"}) /\ shown \in Seq(Record)
  BY OptsIs DEF TypeOK
<1>2. Cardinality(Of(shown, t)) \in Nat /\ Of(shown, t) \subseteq 1..Len(shown)
  BY <1>1, PositionsAreFinite
<1>3. CASE Begin(t) \/ Leave(t)
  <2>1. UNCHANGED <<log, msg, shown, prog>> /\ wpc[t] = "idle" /\ wpc'[t] \in {"count", "done"}
    BY <1>1, <1>3 DEF Begin, Leave, Goto, TypeOK, model, program
  <2> QED  BY <1>1, <1>2, <2>1 DEF ScreenOf, Pending
<1>4. CASE Count(t)
  <2>1. PICK v \in {"ok", "fail"} : log'[t] = Append(log[t], v) /\ msg'[t].verdict = v
    BY <1>1, <1>4 DEF Count, TypeOK
  <2>2. /\ UNCHANGED <<shown, prog>> /\ wpc[t] = "count" /\ wpc'[t] \in {"lock", "done"}
    BY <1>1, <1>4 DEF Count, Goto, TypeOK, model, program
  <2>3. /\ Len(log'[t]) = Len(log[t]) + 1 /\ log'[t][Len(log'[t])] = v
        /\ \A k \in 1..Len(log[t]) : log'[t][k] = log[t][k]
    BY <1>1, <2>1
  <2>4. ASSUME NEW i \in Of(shown, t)
        PROVE  Cardinality(Of(shown, t) \cap 1..i) \in 1..Cardinality(Of(shown, t))
    <3>1. i \in Of(shown, t) \cap 1..i
      BY <1>2
    <3>2. /\ IsFiniteSet(Of(shown, t) \cap 1..i)
          /\ Cardinality(Of(shown, t) \cap 1..i) <= Cardinality(Of(shown, t))
      BY <1>1, PositionsAreFinite, FS_Subset
    <3> HIDE DEF Of
    <3>3. Cardinality(Of(shown, t) \cap 1..i) # 0
      BY <3>1, <3>2, FS_EmptySet
    <3> QED  BY <1>2, <3>2, <3>3, FS_CardinalityType
  <2>5. Cardinality(Of(shown, t)) <= Len(log[t])
    BY <1>1, <1>2, <2>2 DEF ScreenOf, Pending
  <2>6. \A i \in Of(shown, t) :
          shown[i].verdict = log'[t][Cardinality(Of(shown, t) \cap 1..i)]
    <3> SUFFICES ASSUME NEW i \in Of(shown, t)
                 PROVE  shown[i].verdict = log'[t][Cardinality(Of(shown, t) \cap 1..i)]
      OBVIOUS
    <3>1. Cardinality(Of(shown, t) \cap 1..i) \in 1..Len(log[t])
      BY <1>1, <1>2, <2>4, <2>5
    <3> QED  BY <2>3, <3>1 DEF ScreenOf
  <2>7. prog \in {"new", "running"} => Cardinality(Of(shown, t)) = Len(log[t])
    BY <1>2, <2>2 DEF ScreenOf, Pending
  <2>8. Len(log[t]) \in Nat
    BY <1>1
  <2>9. Pending(t)' = IF wpc'[t] = "lock" THEN 1 ELSE 0
    BY <2>2 DEF Pending
  <2>10. wpc'[t] \in {"lock", "send"} => /\ Len(log'[t]) > 0
                                          /\ msg'[t].verdict = log'[t][Len(log'[t])]
    BY <2>1, <2>3, <2>8
  <2>11. /\ Cardinality(Of(shown, t)) + Pending(t)' <= Len(log'[t])
         /\ prog \in {"new", "running"} /\ wpc'[t] # "done" =>
              Cardinality(Of(shown, t)) + Pending(t)' = Len(log'[t])
    BY <1>2, <2>2, <2>3, <2>5, <2>7, <2>8, <2>9
  <2> QED  BY <2>2, <2>6, <2>10, <2>11 DEF ScreenOf
<1>5. CASE Lock(t)
  <2>1. ~closed
    BY <1>5, OptsIs DEF Lock, DoneInv
  <2>2. /\ UNCHANGED <<log, shown, prog>> /\ wpc[t] = "lock" /\ wpc'[t] = "send"
        /\ msg'[t].verdict = msg[t].verdict
    BY <1>1, <1>5, <2>1 DEF Lock, Goto, TypeOK, model, program
  <2> QED  BY <2>2 DEF ScreenOf, Pending
<1>6. CASE Send(t)
  <2> DEFINE r == [target |-> t, verdict |-> msg[t].verdict]
             n == Len(shown) + 1
  <2>1. /\ UNCHANGED <<log, msg, prog>> /\ wpc[t] = "send" /\ wpc'[t] \in {"idle", "done"}
    BY <1>1, <1>6 DEF Send, AfterShown, Goto, TypeOK, program
  <2>2. CASE shown' = shown /\ Ended
    BY <1>1, <1>2, <2>1, <2>2 DEF ScreenOf, Pending, Ended
  <2>3. CASE shown' = Append(shown, r) /\ prog = "running"
    <3>1. r \in Record
      BY <1>1 DEF TypeOK, Record
    <3>2. /\ Of(shown', t) = Of(shown, t) \cup {n} /\ n \notin Of(shown, t)
          /\ Cardinality(Of(shown', t)) = Cardinality(Of(shown, t)) + 1
          /\ \A i \in Of(shown, t) : shown'[i] = shown[i] /\ i \in 1..Len(shown)
          /\ shown'[n].verdict = msg[t].verdict
      <4>1. r.target = t /\ r.verdict = msg[t].verdict
        OBVIOUS
      <4> HIDE DEF r
      <4>2. /\ Of(Append(shown, r), t) = Of(shown, t) \cup {n} /\ n \notin Of(shown, t)
            /\ Cardinality(Of(Append(shown, r), t)) = Cardinality(Of(shown, t)) + 1
        <5>1. shown \in Seq(Record)
          BY <1>1
        <5> HIDE DEF n
        <5>2. r.target = t => Of(Append(shown, r), t) = Of(shown, t) \cup {Len(shown) + 1}
          BY <3>1, <5>1, AppendedPositions
        <5>3. r.target = t => Cardinality(Of(Append(shown, r), t))
                                = Cardinality(Of(shown, t)) + 1
          BY <3>1, <5>1, AppendedPositions
        <5>4. Len(shown) + 1 \notin Of(shown, t)
          BY <3>1, <5>1, AppendedPositions
        <5> QED  BY <4>1, <5>2, <5>3, <5>4 DEF n
      <4>3. /\ \A i \in Of(shown, t) : Append(shown, r)[i] = shown[i] /\ i \in 1..Len(shown)
            /\ Append(shown, r)[n] = r
        BY <1>1, <3>1, AppendedPositions
      <4> QED  BY <2>3, <4>1, <4>2, <4>3
    <3>3. Cardinality(Of(shown, t)) + 1 = Len(log[t])
      BY <2>1, <2>3 DEF ScreenOf, Pending
    <3>4. ASSUME NEW i \in Of(shown', t)
          PROVE  shown'[i].verdict = log[t][Cardinality(Of(shown', t) \cap 1..i)]
      <4>1. CASE i = n
        <5>1. Of(shown', t) \cap 1..i = Of(shown', t)
          BY <1>2, <3>2, <4>1
        <5> QED  BY <2>1, <3>2, <3>3, <4>1, <5>1 DEF ScreenOf
      <4>2. CASE i \in Of(shown, t)
        <5>1. Of(shown', t) \cap 1..i = Of(shown, t) \cap 1..i
          BY <1>1, <1>2, <3>2, <4>2
        <5> QED  BY <3>2, <4>2, <5>1 DEF ScreenOf
      <4> QED  BY <3>2, <4>1, <4>2
    <3> QED  BY <1>1, <1>2, <2>1, <3>2, <3>3, <3>4 DEF ScreenOf, Pending
  <2> QED  BY <1>6, <2>2, <2>3 DEF Send, Show
<1> QED  BY <1>3, <1>4, <1>5, <1>6 DEF Probe

LEMMA ScreenStep ==
  ASSUME TypeOK, DoneInv, ScreenInv, [Next]_vars
  PROVE  ScreenInv'
<1>1. CASE \E t \in Active : Probe(t)
  <2>1. PICK t \in Active : Probe(t)
    BY <1>1
  <2>2. opts' = opts /\ prog' = prog
    BY <2>1 DEF Probe, Begin, Leave, Count, Lock, Send, program
  <2>3. ASSUME NEW u \in Active, u # t  PROVE ScreenOf(u)'
    <3>1. /\ wpc'[u] = wpc[u] /\ log'[u] = log[u] /\ msg'[u] = msg[u]
      BY <2>1, <2>3, OthersStay
    <3>2. /\ Of(shown', u) = Of(shown, u)
          /\ \A i \in Of(shown, u) : shown'[i] = shown[i]
      <4>1. CASE shown' = shown
        BY <4>1
      <4>2. CASE shown' = Append(shown, [target |-> t, verdict |-> msg[t].verdict])
        <5>1. shown \in Seq(Record) /\ [target |-> t, verdict |-> msg[t].verdict] \in Record
          BY OptsIs DEF TypeOK, Record
        <5> QED  BY <2>3, <4>2, <5>1, AppendedPositions
      <4> QED  BY <2>1, <4>1, <4>2 DEF Probe, Begin, Leave, Count, Lock, Send, Show, model
    <3> QED  BY <2>2, <2>3, <3>1, <3>2 DEF ScreenInv, ScreenOf, Pending
  <2> QED  BY <2>1, <2>2, <2>3, ScreenProbe DEF ScreenInv, Active
<1>2. CASE Aside \/ UNCHANGED vars
  BY <1>2, AsideChanges DEF ScreenInv, ScreenOf, Pending, Active
<1> QED  BY <1>1, <1>2 DEF Next, Aside

LEMMA CountersProbe ==
  ASSUME TypeOK, DoneInv, NEW t \in Active, Probe(t), NEW v \in {"ok", "fail"},
         CountersOf(t, v)
  PROVE  CountersOf(t, v)' /\ stats'[t][v] >= stats[t][v]
<1>1. /\ t \in Targets /\ shown \in Seq(Record) /\ Tallied(shown, t, v) \in Nat
      /\ stats[t][v] \in Nat
  BY OptsIs, TallyIsFinite DEF TypeOK, Tally
<1>2. opts' = opts /\ prog' = prog /\ (Single <=> Single')
  BY DEF Probe, Begin, Leave, Count, Lock, Send, program, Single
<1>3. CASE Begin(t) \/ Leave(t)
  <2>1. UNCHANGED <<stats, msg, shown, screen>> /\ wpc[t] = "idle"
        /\ wpc'[t] \in {"count", "done"}
    BY <1>1, <1>3 DEF Begin, Leave, Goto, TypeOK, model
  <2> QED  BY <1>1, <1>2, <2>1 DEF CountersOf, PendingTally
<1>4. CASE Count(t)
  <2>0. PICK u \in {"ok", "fail"} : /\ stats' = [stats EXCEPT ![t][u] = @ + 1]
                                    /\ msg' = [msg EXCEPT ![t].verdict = u]
    BY <1>4 DEF Count
  <2>1. /\ stats' = [stats EXCEPT ![t][u] = @ + 1]
        /\ msg'[t].verdict = u
    BY <1>1, <2>0 DEF TypeOK
  <2>2. UNCHANGED <<shown, screen>> /\ wpc[t] = "count" /\ wpc'[t] \in {"lock", "done"}
    BY <1>1, <1>4 DEF Count, Goto, TypeOK, model
  <2>3. stats'[t][v] = stats[t][v] + (IF u = v THEN 1 ELSE 0)
    <3>1. stats[t] \in [ok : Nat, fail : Nat] /\ stats \in [Targets -> Tally]
      BY <1>1 DEF TypeOK, Tally
    <3>2. DOMAIN stats[t] = {"ok", "fail"} /\ t \in DOMAIN stats
      BY <1>1, <3>1
    <3>3. stats'[t] = [stats[t] EXCEPT ![u] = stats[t][u] + 1]
      BY <2>1, <3>2
    <3> QED  BY <1>1, <3>2, <3>3
  <2> QED  BY <1>1, <1>2, <2>1, <2>2, <2>3 DEF CountersOf, PendingTally
<1>5. CASE Lock(t)
  <2>1. ~closed
    BY <1>5, OptsIs DEF Lock, DoneInv
  <2>2. UNCHANGED <<stats, shown, screen>> /\ wpc[t] = "lock" /\ wpc'[t] = "send"
    BY <1>1, <1>5, <2>1 DEF Lock, Goto, TypeOK, model
  <2>3. msg'[t].verdict = msg[t].verdict /\ msg'[t].stat = stats[t]
    BY <1>1, <1>5, <2>1 DEF Lock, TypeOK
  <2> QED  BY <1>1, <1>2, <2>2, <2>3 DEF CountersOf, PendingTally
<1>6. CASE Send(t)
  <2> DEFINE r == [target |-> t, verdict |-> msg[t].verdict]
  <2>1. /\ UNCHANGED <<stats, msg>> /\ wpc[t] = "send" /\ wpc'[t] \in {"idle", "done"}
    BY <1>1, <1>6 DEF Send, AfterShown, Goto, TypeOK
  <2>2. CASE UNCHANGED <<shown, screen>> /\ Ended
    BY <1>1, <1>2, <2>1, <2>2 DEF CountersOf, PendingTally, Ended
  <2>3. CASE /\ shown' = Append(shown, r) /\ prog = "running"
             /\ screen' = IF Single THEN msg[t].stat ELSE screen
    <3>1. r \in Record /\ r.target = t /\ r.verdict = msg[t].verdict
      BY <1>1 DEF TypeOK, Record
    <3>2. Tallied(Append(shown, r), t, v)
            = Tallied(shown, t, v) + (IF msg[t].verdict = v THEN 1 ELSE 0)
      <4> HIDE DEF r
      <4>1. CASE msg[t].verdict = v
        BY <1>1, <3>1, <4>1, AppendedTally
      <4>2. CASE msg[t].verdict # v
        BY <1>1, <3>1, <4>2, AppendedTally
      <4> QED  BY <4>1, <4>2
    <3>3. Tallied(shown', t, v) = stats[t][v]
      BY <2>1, <2>3, <3>2 DEF CountersOf, PendingTally
    <3>4. Single => screen'[v] = stats[t][v]
      BY <2>1, <2>3 DEF CountersOf
    <3> QED  BY <1>1, <1>2, <2>1, <3>3, <3>4 DEF CountersOf, PendingTally
  <2> QED  BY <1>6, <2>2, <2>3 DEF Send, Show
<1> QED  BY <1>3, <1>4, <1>5, <1>6 DEF Probe

LEMMA CountersStep ==
  ASSUME TypeOK, DoneInv, CountersInv, [Next]_vars
  PROVE  /\ CountersInv'
         /\ \A t \in Active : \A v \in {"ok", "fail"} : stats'[t][v] >= stats[t][v]
<1>1. CASE \E t \in Active : Probe(t)
  <2>1. PICK t \in Active : Probe(t)
    BY <1>1
  <2>2. opts' = opts /\ prog' = prog
    BY <2>1 DEF Probe, Begin, Leave, Count, Lock, Send, program
  <2>3. ASSUME NEW u \in Active, u # t, NEW v \in {"ok", "fail"}
        PROVE  CountersOf(u, v)' /\ stats'[u][v] >= stats[u][v]
    <3>1. wpc'[u] = wpc[u] /\ stats'[u] = stats[u] /\ msg'[u] = msg[u]
      BY <2>1, <2>3, OthersStay
    <3>2. Tallied(shown', u, v) = Tallied(shown, u, v)
      <4>1. CASE shown' = shown
        BY <4>1
      <4>2. CASE shown' = Append(shown, [target |-> t, verdict |-> msg[t].verdict])
        <5>1. shown \in Seq(Record) /\ [target |-> t, verdict |-> msg[t].verdict] \in Record
          BY OptsIs DEF TypeOK, Record
        <5> QED  BY <2>3, <4>2, <5>1, AppendedTally
      <4> QED  BY <2>1, <4>1, <4>2 DEF Probe, Begin, Leave, Count, Lock, Send, Show, model
    <3>3. ~Single /\ ~Single'
      BY <2>2, <2>3, OptsIs DEF Single
    <3>4. stats[u][v] \in Nat
      BY OptsIs DEF TypeOK, Tally
    <3>5. CountersOf(u, v)
      BY DEF CountersInv
    <3> QED  BY <2>2, <3>1, <3>2, <3>3, <3>4, <3>5 DEF CountersOf, PendingTally
  <2>4. ASSUME NEW v \in {"ok", "fail"}
        PROVE  CountersOf(t, v)' /\ stats'[t][v] >= stats[t][v]
    BY <2>1, CountersProbe DEF CountersInv
  <2>5. Active' = Active
    BY <2>2 DEF Active
  <2> QED  BY <2>3, <2>4, <2>5 DEF CountersInv
<1>2. CASE Aside \/ UNCHANGED vars
  <2>1. /\ UNCHANGED <<opts, wpc, stats, msg, shown, screen>>
        /\ prog' \in {"new", "running"} => prog \in {"new", "running"}
    BY <1>2, AsideChanges
  <2>2. ASSUME NEW t \in Active, NEW v \in {"ok", "fail"}
        PROVE  CountersOf(t, v)' /\ stats'[t][v] >= stats[t][v]
    <3>1. CountersOf(t, v) /\ stats[t][v] \in Nat
      BY OptsIs DEF CountersInv, TypeOK, Tally
    <3> QED  BY <2>1, <3>1 DEF CountersOf, PendingTally, Single
  <2>3. Active' = Active
    BY <2>1 DEF Active
  <2> QED  BY <2>2, <2>3 DEF CountersInv
<1> QED  BY <1>1, <1>2 DEF Next, Aside

(* An export whose records and totals are left alone.                      *)
LEMMA ExportStays ==
  ASSUME TypeOK, NEW e \in Exports, ExportOf(e), opts' = opts, file'[e] = file[e],
         xpc'[e] \in {"none", "snapshot"} => xpc'[e] = xpc[e],
         \A t \in Active : \A v \in {"ok", "fail"} : stats'[t][v] >= stats[t][v],
         TypeOK'
  PROVE  ExportOf(e)'
<1>1. Active' = Active /\ (Single' <=> Single)
  BY DEF Active, Single
<1>2. ASSUME ~Single, NEW t \in Active, NEW v \in {"ok", "fail"}
      PROVE  Tallied(file[e].records, t, v) <= stats'[t][v]
  <2>1. file[e].records \in Seq(Record)
    BY DEF TypeOK
  <2>2. Tallied(file[e].records, t, v) \in Nat
    BY <2>1, TallyIsFinite
  <2>3. stats[t][v] \in Nat /\ stats'[t][v] \in Nat
    BY OptsIs DEF TypeOK, Tally
  <2>4. Tallied(file[e].records, t, v) <= stats[t][v]
    BY <1>2 DEF ExportOf
  <2> QED  BY <2>2, <2>3, <2>4
<1> QED  BY <1>1, <1>2 DEF ExportOf

(* An export that is confirmed has the copies that Update made.            *)
LEMMA ExportConfirmed ==
  ASSUME TypeOK, CountersInv, NEW e \in Exports, Confirm(e)
  PROVE  ExportOf(e)'
<1>1. /\ file'[e].totals = Captured /\ file'[e].records = shown
      /\ xpc'[e] = IF Single THEN "write" ELSE "snapshot"
  BY DEF Confirm, TypeOK
<1>2. UNCHANGED <<opts, stats>> /\ Active' = Active /\ (Single' <=> Single)
  BY DEF Confirm, probing, Active, Single
<1>3. CASE Single
  <2>1. file'[e].totals = <<screen>> /\ DOMAIN file'[e].totals = {1} /\ Active = {1}
    BY <1>1, <1>3, OptsIs DEF Captured
  <2>2. \A v \in {"ok", "fail"} : screen[v] = Tallied(shown, 1, v)
    BY <1>3, OptsIs DEF CountersInv, CountersOf
  <2> QED  BY <1>1, <1>2, <1>3, <2>1, <2>2 DEF ExportOf
<1>4. CASE ~Single
  <2>1. file'[e].totals = <<>> /\ DOMAIN file'[e].totals = {} /\ Len(file'[e].totals) = 0
    BY <1>1, <1>4 DEF Captured
  <2>2. opts.targets = 2
    BY <1>4, OptsIs DEF Single
  <2>3. \A t \in Active : \A v \in {"ok", "fail"} : Tallied(shown, t, v) <= stats[t][v]
    <3> SUFFICES ASSUME NEW t \in Active, NEW v \in {"ok", "fail"}
                 PROVE  Tallied(shown, t, v) <= stats[t][v]
      OBVIOUS
    <3>1. Tallied(shown, t, v) \in Nat /\ stats[t][v] \in Nat
      BY OptsIs, TallyIsFinite DEF TypeOK, Tally
    <3>2. PendingTally(t, v) \in Nat /\ Tallied(shown, t, v) + PendingTally(t, v) <= stats[t][v]
      BY DEF CountersInv, CountersOf, PendingTally
    <3> QED  BY <3>1, <3>2
  <2> QED  BY <1>1, <1>2, <1>4, <2>1, <2>2, <2>3 DEF ExportOf
<1> QED  BY <1>3, <1>4

(* An export of a fleet reads the totals of one more target.               *)
LEMMA ExportSnapshot ==
  ASSUME TypeOK, NEW e \in Exports, ExportOf(e), Snapshot(e)
  PROVE  ExportOf(e)'
<1> DEFINE totals == file[e].totals
           t == Len(totals) + 1
<1>1. /\ totals \in Seq(Tally) /\ ~Single /\ Len(totals) < opts.targets
      /\ t \in Active
  BY OptsIs DEF Snapshot, ExportOf, TypeOK, Active
<1>2. /\ file'[e].totals = Append(totals, stats[t])
      /\ file'[e].records = file[e].records
      /\ xpc'[e] = IF t = opts.targets THEN "write" ELSE "snapshot"
  BY DEF Snapshot, XGoto, TypeOK
<1>3. UNCHANGED <<opts, stats>> /\ Active' = Active /\ (Single' <=> Single)
  BY DEF Snapshot, probing, Active, Single
<1>4. stats[t] \in Tally
  BY <1>1, OptsIs DEF TypeOK
<1>5. /\ Len(Append(totals, stats[t])) = t /\ Append(totals, stats[t])[t] = stats[t]
      /\ DOMAIN Append(totals, stats[t]) = DOMAIN totals \cup {t}
      /\ \A i \in DOMAIN totals : Append(totals, stats[t])[i] = totals[i]
  BY <1>1, <1>4
<1>6. DOMAIN file'[e].totals \subseteq Active
  BY <1>1, <1>2, <1>5 DEF ExportOf
<1>7. \A u \in DOMAIN file'[e].totals : \A v \in {"ok", "fail"} :
        file'[e].totals[u][v] >= Tallied(file[e].records, u, v)
  <2> SUFFICES ASSUME NEW u \in DOMAIN file'[e].totals, NEW v \in {"ok", "fail"}
               PROVE  file'[e].totals[u][v] >= Tallied(file[e].records, u, v)
    OBVIOUS
  <2>1. CASE u \in DOMAIN totals
    BY <1>1, <1>2, <1>5, <2>1 DEF ExportOf
  <2>2. CASE u = t
    <3>1. Tallied(file[e].records, t, v) <= stats[t][v]
      BY <1>1 DEF ExportOf
    <3>2. file[e].records \in Seq(Record)
      BY DEF TypeOK
    <3>3. Tallied(file[e].records, t, v) \in Nat /\ stats[t][v] \in Nat
      BY <1>4, <3>2, TallyIsFinite DEF Tally
    <3> QED  BY <1>2, <1>5, <2>2, <3>1, <3>3
  <2> QED  BY <1>2, <1>5, <2>1, <2>2
<1>8. xpc'[e] = "snapshot" => Len(file'[e].totals) < opts.targets
  BY <1>1, <1>2, <1>5, OptsIs
<1>9. xpc'[e] # "none"
  BY <1>2
<1> QED  BY <1>1, <1>2, <1>3, <1>6, <1>7, <1>8, <1>9 DEF ExportOf

LEMMA ExportStep ==
  ASSUME TypeOK, TypeOK', CountersInv, ExportInv, [Next]_vars,
         \A t \in Active : \A v \in {"ok", "fail"} : stats'[t][v] >= stats[t][v]
  PROVE  ExportInv'
<1> SUFFICES ASSUME NEW e \in Exports  PROVE ExportOf(e)'
  BY DEF ExportInv
<1>1. ExportOf(e)
  BY DEF ExportInv
<1>2. CASE Confirm(e)
  BY <1>2, ExportConfirmed
<1>3. CASE Snapshot(e)
  BY <1>1, <1>3, ExportSnapshot
<1>4. CASE ~Confirm(e) /\ ~Snapshot(e)
  <2>1. opts' = opts
    BY DEF Next, Probe, Begin, Leave, Count, Lock, Send, Loop, Start, LoopEnds, Restore,
           Cancel, Key, OpenModal, Choose, CloseModal, PressQuit, Confirm, Signal,
           Interrupt, Export, Snapshot, SaveFileAsync, Copied, AsyncSave, CreateTables,
           Commit, Main, SetCancel, Wait, Close, SendQuit, Exit, Exited, vars
  <2>2. /\ file'[e] = file[e]
        /\ xpc'[e] \in {"none", "snapshot"} => xpc'[e] = xpc[e]
    <3>1. CASE \E t \in Active : Probe(t)
      BY <3>1 DEF Probe, Begin, Leave, Count, Lock, Send, exporting
    <3>2. CASE Loop \/ Signal
      BY <3>2 DEF Loop, Start, LoopEnds, Restore, Cancel, Signal, exporting
    <3>3. CASE Key
      BY <1>4, <3>3 DEF Key, OpenModal, Choose, CloseModal, PressQuit, Confirm, TypeOK,
                        exporting
    <3>4. CASE Interrupt
      BY <3>4 DEF Interrupt, TypeOK
    <3>5. CASE \E d \in Exports : Export(d)
      BY <1>4, <3>5 DEF Export, Snapshot, SaveFileAsync, Copied, AsyncSave, CreateTables,
                        Commit, XGoto, TypeOK
    <3>6. CASE Main
      BY <3>6 DEF Main, SetCancel, Wait, Close, SendQuit, Exit, TypeOK, exporting
    <3>7. CASE Exited \/ UNCHANGED vars
      BY <3>7 DEF Exited, vars
    <3> QED  BY <3>1, <3>2, <3>3, <3>4, <3>5, <3>6, <3>7 DEF Next
  <2> QED  BY <1>1, <2>1, <2>2, ExportStays
<1> QED  BY <1>2, <1>3, <1>4
-----------------------------------------------------------------------------
LEMMA SpecIInv == Spec => []IInv
<1>1. IInv /\ [Next]_vars => IInv'
  BY TypeStep, DoneStep, ScreenStep, CountersStep, ExportStep DEF IInv
<1> QED  BY InitIInv, <1>1, PTL DEF Spec

(* Every variable keeps its type, whatever is pressed, shown and exported, *)
(* and an export of a fleet reads the totals of its targets only (Update,  *)
(* ExportMultiTarget).                                                     *)
THEOREM TypeCorrect == Spec => []TypeOK
<1>1. IInv => TypeOK
  BY DEF IInv
<1> QED  BY SpecIInv, <1>1, PTL

(* The screen shows the probes of each target in their order and without a *)
(* hole, for any bounds on their number (OnProbe, Send, Update).           *)
THEOREM ScreenCorrect == Spec => []ScreenFollowsProbes
<1>1. IInv => ScreenFollowsProbes
  <2> SUFFICES ASSUME IInv, NEW t \in Active
               PROVE  /\ Cardinality(Of(shown, t)) <= Len(log[t])
                      /\ \A i \in Of(shown, t) :
                           shown[i].verdict = log[t][Cardinality(Of(shown, t) \cap 1..i)]
                      /\ wpc[t] = "idle" /\ prog = "running" =>
                           Cardinality(Of(shown, t)) = Len(log[t])
    BY DEF ScreenFollowsProbes
  <2>1. ScreenOf(t) /\ Pending(t) \in {0, 1} /\ (wpc[t] = "idle" => Pending(t) = 0)
    BY DEF IInv, ScreenInv, Pending
  <2>2. shown \in Seq(Record) /\ log[t] \in Seq({"ok", "fail"})
    BY OptsIs DEF IInv, TypeOK
  <2>3. Cardinality(Of(shown, t)) \in Nat /\ Len(log[t]) \in Nat
    BY <2>2, PositionsAreFinite
  <2> QED  BY <2>1, <2>3 DEF ScreenOf
<1> QED  BY SpecIInv, <1>1, PTL

(* Every export agrees with itself, however many there are at a time and   *)
(* however far probing goes on meanwhile (ExportSingleTarget,              *)
(* ExportMultiTarget).                                                     *)
THEOREM ExportsCorrect == Spec => []ExportAgrees
<1>1. IInv => ExportAgrees
  BY DEF IInv, ExportInv, ExportOf, ExportAgrees
<1> QED  BY SpecIInv, <1>1, PTL
=============================================================================
