--------------------------- MODULE FifoShellProofs ---------------------------
(***************************************************************************)
(* The reader's gate makes pushing idempotent: a shell runs its numbers in *)
(* order and each at most once.  What is reported as completed ran, and    *)
(* the agent's session is never switched behind its back.  All of it for   *)
(* every number of commands, drops and reconnects.                         *)
(***************************************************************************)
EXTENDS FifoShell, TLAPS

USE BoundsAssumption DEF BoundsAssumption

GhostOK(g) == "seq" \in DOMAIN g /\ g.seq \in Nat

\* The numbers on their way to a reader are numbers.
NumbersOK ==
    /\ seq \in Nat /\ pending \in Nat /\ last \in [Shell -> Nat]
    /\ fifo \in [Shell -> Seq(Nat)]
    /\ \A g \in ghosts : GhostOK(g)

\* What a reader has run is not above the last number it took.
RanBelowLast ==
    /\ ran = [k \in Shell |-> [s \in SeqNo |-> ran[k][s]]]
    /\ \A k \in Shell : \A s \in SeqNo : ran[k][s] # "no" => s <= last[k]

GateInv == NumbersOK /\ RanBelowLast

\* The property of one step.
RunsInOrder ==
    \A k \in Shell : \A s \in SeqNo : ran'[k][s] # ran[k][s] =>
        \A r \in SeqNo : ran[k][r] # "no" => r < s

LEMMA InitGate == Init => GateInv
<1> SUFFICES ASSUME Init PROVE GateInv
  OBVIOUS
<1>1. NumbersOK
  <2>1. last \in [Shell -> Nat] /\ fifo \in [Shell -> Seq(Nat)]
    BY DEF Init
  <2> QED
    BY <2>1 DEF Init, NumbersOK
<1>2. RanBelowLast
  BY DEF Init, RanBelowLast, SeqNo
<1> QED
  BY <1>1, <1>2 DEF GateInv

\* What leaves the reader's memory and the FIFOs alone keeps the invariant.
LEMMA QuietGate ==
    ASSUME GateInv, UNCHANGED <<last, ran, fifo>>, seq' \in Nat, pending' \in Nat,
           \A g \in ghosts' : GhostOK(g)
    PROVE  GateInv'
BY DEF GateInv, NumbersOK, RanBelowLast

\* So does pushing a number, whichever.
LEMMA ApplyGate ==
    ASSUME GateInv, NEW k, NEW s \in Nat, NEW step, NEW b, Apply(k, s, step, b),
           seq' \in Nat, pending' \in Nat, \A g \in ghosts' : GhostOK(g)
    PROVE  GateInv'
<1>1. fifo' \in [Shell -> Seq(Nat)]
  <2>1. CASE step = "push"
    <3>1. fifo' = [fifo EXCEPT ![k] = Append(@, s)]
      BY <2>1 DEF Apply
    <3>2. k \in Shell => Append(fifo[k], s) \in Seq(Nat)
      BY DEF GateInv, NumbersOK
    <3> QED
      BY <3>1, <3>2 DEF GateInv, NumbersOK
  <2>2. CASE step # "push"
    BY <2>2 DEF Apply, GateInv, NumbersOK
  <2> QED
    BY <2>1, <2>2
<1> QED
  BY <1>1 DEF Apply, GateInv, NumbersOK, RanBelowLast

\* A number taken is above all those taken before.
LEMMA TakeGate ==
    ASSUME GateInv, NEW k \in Shell, TakeToken(k)
    PROVE  GateInv' /\ RunsInOrder
<1> DEFINE s == Head(fifo[k])
<1>1. s \in Nat /\ last[k] \in Nat /\ last[k] < s
  BY DEF TakeToken, Gated, GateInv, NumbersOK
<1>2. last' = [last EXCEPT ![k] = s] /\ fifo' = [fifo EXCEPT ![k] = Tail(@)]
  BY DEF TakeToken
<1>3. ran' = ran \/ ran' = [ran EXCEPT ![k][s] = body[k][s]]
  BY DEF TakeToken
<1> HIDE DEF s
<1>4. \A j \in Shell : \A r \in SeqNo : ran'[j][r] # ran[j][r] => j = k /\ r = s
  BY <1>3 DEF GateInv, RanBelowLast
<1>5. NumbersOK'
  <2>1. last' \in [Shell -> Nat]
    BY <1>1, <1>2 DEF GateInv, NumbersOK
  <2>2. fifo' \in [Shell -> Seq(Nat)]
    <3>1. Tail(fifo[k]) \in Seq(Nat)
      BY DEF TakeToken, GateInv, NumbersOK
    <3> QED
      BY <3>1, <1>2 DEF GateInv, NumbersOK
  <2> QED
    BY <2>1, <2>2 DEF TakeToken, GateInv, NumbersOK, clientVars
<1>6. RanBelowLast'
  <2>1. ran' = [j \in Shell |-> [r \in SeqNo |-> ran'[j][r]]]
    BY <1>3 DEF GateInv, RanBelowLast
  <2>2. ASSUME NEW j \in Shell, NEW r \in SeqNo, ran'[j][r] # "no"
        PROVE  r <= last'[j]
    <3>1. CASE j = k /\ r = s
      BY <3>1, <1>1, <1>2 DEF GateInv, NumbersOK
    <3>2. CASE ~(j = k /\ r = s)
      <4>1. r <= last[j]
        BY <2>2, <3>2, <1>4 DEF GateInv, RanBelowLast
      <4>2. last[j] <= last'[j] /\ last[j] \in Nat /\ last'[j] \in Nat
        BY <1>1, <1>2 DEF GateInv, NumbersOK
      <4> QED
        BY <4>1, <4>2 DEF SeqNo
    <3> QED
      BY <3>1, <3>2
  <2> QED
    BY <2>1, <2>2 DEF RanBelowLast
<1>7. RunsInOrder
  <2>1. \A r \in SeqNo : ran[k][r] # "no" => r < s
    BY <1>1 DEF GateInv, RanBelowLast, SeqNo
  <2> QED
    BY <2>1, <1>4 DEF RunsInOrder
<1> QED
  BY <1>5, <1>6, <1>7 DEF GateInv

LEMMA ReaderGate ==
    ASSUME GateInv, NEW k \in Shell,
           SkipToken(k) \/ CommandEnds(k) \/ ReaderDies(k)
    PROVE  GateInv' /\ UNCHANGED ran
<1>1. CASE SkipToken(k)
  <2>1. Tail(fifo[k]) \in Seq(Nat)
    BY <1>1 DEF SkipToken, GateInv, NumbersOK
  <2> QED
    BY <1>1, <2>1 DEF SkipToken, GateInv, NumbersOK, RanBelowLast, clientVars
<1>2. CASE CommandEnds(k) \/ ReaderDies(k)
  BY <1>2, QuietGate DEF CommandEnds, ReaderDies, clientVars, GateInv, NumbersOK
<1> QED
  BY <1>1, <1>2

LEMMA GhostGate ==
    ASSUME GateInv, GhostStep
    PROVE  GateInv' /\ UNCHANGED ran
<1>1. PICK g \in ghosts :
        /\ Apply(g.shell, g.seq, Head(g.todo), g.body)
        /\ ghosts' = (ghosts \ {g}) \cup
             {h \in {[g EXCEPT !.todo = Tail(@)]} : h.todo # <<>>}
  BY DEF GhostStep
<1>2. \A h \in ghosts' : GhostOK(h)
  BY <1>1 DEF GateInv, NumbersOK, GhostOK
<1>3. g.seq \in Nat
  BY DEF GateInv, NumbersOK, GhostOK
<1>4. GateInv'
  BY <1>1, <1>2, <1>3, ApplyGate DEF GhostStep, GateInv, NumbersOK, clientVars
<1> QED
  BY <1>1, <1>4 DEF Apply

LEMMA NewGhosts ==
    ASSUME GateInv, NEW s \in Nat, NEW todo, NEW new \in Ghosts(s, todo),
           ghosts' = ghosts \cup new
    PROVE  \A g \in ghosts' : GhostOK(g)
<1>1. \A g \in new : GhostOK(g)
  BY DEF Ghosts, GhostOK
<1> QED
  BY <1>1 DEF GateInv, NumbersOK

\* The client's steps that push or stage.
LEMMA ScriptGate ==
    ASSUME GateInv, ScriptStep \/ Restage \/ Repush
    PROVE  GateInv' /\ UNCHANGED ran
<1>1. CASE ScriptStep
  <2>1. GateInv'
    BY <1>1, ApplyGate DEF ScriptStep, GateInv, NumbersOK
  <2> QED
    BY <1>1, <2>1 DEF ScriptStep, Apply
<1>2. CASE Restage
  <2>1. GateInv'
    BY <1>2, ApplyGate DEF Restage, GateInv, NumbersOK
  <2> QED
    BY <1>2, <2>1 DEF Restage, Apply
<1>3. CASE Repush
  <2>1. GateInv'
    BY <1>3, ApplyGate DEF Repush, GateInv, NumbersOK
  <2> QED
    BY <1>3, <2>1 DEF Repush, Apply
<1> QED
  BY <1>1, <1>2, <1>3

LEMMA DropGate ==
    ASSUME GateInv, ExecDrops \/ RecoveryDrops
    PROVE  GateInv' /\ UNCHANGED ran
<1>1. CASE ExecDrops
  <2>1. \A g \in ghosts' : GhostOK(g)
    BY <1>1, NewGhosts DEF ExecDrops, GateInv, NumbersOK
  <2> QED
    BY <1>1, <2>1, QuietGate DEF ExecDrops, boxVars, GateInv, NumbersOK
<1>2. CASE RecoveryDrops
  <2>1. \A g \in ghosts' : GhostOK(g)
    BY <1>2, NewGhosts DEF RecoveryDrops, GateInv, NumbersOK
  <2> QED
    BY <1>2, <2>1, QuietGate DEF RecoveryDrops, boxVars, GateInv, NumbersOK
<1> QED
  BY <1>1, <1>2

LEMMA SetupGate ==
    ASSUME GateInv, Setup
    PROVE  GateInv' /\ UNCHANGED ran
<1>1. CASE Teardown
  <2>1. fifo' \in [Shell -> Seq(Nat)]
    <3>1. <<>> \in Seq(Nat)
      OBVIOUS
    <3> QED
      BY <1>1, <3>1 DEF Teardown, Killed, boxVars, GateInv, NumbersOK
  <2>2. UNCHANGED <<last, ran, seq, ghosts>> /\ pending' = 0
    BY <1>1 DEF Teardown, Killed, boxVars
  <2> QED
    BY <2>1, <2>2 DEF GateInv, NumbersOK, RanBelowLast
<1>2. CASE MakeDir
  BY <1>2, QuietGate DEF MakeDir, GateInv, NumbersOK
<1>3. CASE RunPreamble
  BY <1>3, QuietGate DEF RunPreamble, Send, boxVars, GateInv, NumbersOK
<1>4. CASE Spawn \/ NotUp
  BY <1>4, QuietGate DEF Spawn, NotUp, boxVars, GateInv, NumbersOK
<1>5. CASE SetupDone
  BY <1>5, QuietGate DEF SetupDone, boxVars, GateInv, NumbersOK
<1> QED
  BY <1>1, <1>2, <1>3, <1>4, <1>5 DEF Setup

\* The client's other steps: they only look at the container.
LEMMA ClientGate ==
    ASSUME GateInv,
           \/ RunBash \/ Submit \/ ExecFails \/ Reply \/ TimeOut
           \/ GraderGoesOn \/ GraderRetries \/ Reattach \/ GiveUp
           \/ FoundAlive \/ FoundDead \/ ProbeBody \/ ProbeStarted \/ RepushFails
    PROVE  GateInv' /\ UNCHANGED ran
<1>1. UNCHANGED <<last, ran, fifo, ghosts>>
  BY DEF RunBash, Submit, ExecFails, Reply, TimeOut, GraderGoesOn, GraderRetries,
     Reattach, GiveUp, FoundAlive, FoundDead, ProbeBody, ProbeStarted, RepushFails,
     boxVars
<1>2. seq' \in Nat /\ pending' \in Nat
  BY DEF RunBash, Submit, ExecFails, Reply, TimeOut, GraderGoesOn, GraderRetries,
     Reattach, GiveUp, FoundAlive, FoundDead, ProbeBody, ProbeStarted, RepushFails,
     clientVars, Send, GateInv, NumbersOK
<1> QED
  BY <1>1, <1>2, QuietGate DEF GateInv, NumbersOK

LEMMA RecoveredGate ==
    ASSUME GateInv, Recovered
    PROVE  GateInv' /\ UNCHANGED ran
BY QuietGate DEF Recovered, boxVars, GateInv, NumbersOK

LEMMA NextGate ==
    ASSUME GateInv, [Next]_vars
    PROVE  GateInv' /\ RunsInOrder
<1> DEFINE Quiet == GateInv' /\ UNCHANGED ran
<1>1. Quiet => GateInv' /\ RunsInOrder
  BY DEF RunsInOrder
<1>2. CASE Container
  <2>1. PICK k \in Shell : SkipToken(k) \/ TakeToken(k) \/ CommandEnds(k)
    BY <1>2 DEF Container
  <2> QED
    BY <2>1, <1>1, TakeGate, ReaderGate
<1>3. CASE GhostStep
  BY <1>3, <1>1, GhostGate
<1>4. CASE Worker
  <2>1. CASE Setup
    BY <2>1, <1>1, SetupGate
  <2>2. CASE Recovery
    BY <2>2, <1>1, ClientGate, DropGate, ScriptGate, RecoveredGate DEF Recovery
  <2> QED
    BY <1>4, <2>1, <2>2, <1>1, ScriptGate, DropGate, ClientGate DEF Worker
<1>5. CASE RunBash \/ Submit
  BY <1>5, <1>1, ClientGate
<1>6. CASE \E k \in Shell : ReaderDies(k)
  BY <1>6, <1>1, ReaderGate
<1>7. CASE UNCHANGED vars
  BY <1>7, <1>1, QuietGate DEF vars, boxVars, clientVars, GateInv, NumbersOK
<1> QED
  BY <1>2, <1>3, <1>4, <1>5, <1>6, <1>7 DEF Next

\* However often a token is pushed (a retry, a recovery, a script that went on
\* after its connection was lost), a shell runs each number at most once and
\* never after a later one (_vacli/backend.py, the reader loop of
\* _setup_fifo_shell).
THEOREM NumbersRunOnceInOrder == Spec => RunsOnceInOrder
<1>1. Init => GateInv
  BY InitGate
<1>2. GateInv /\ [Next]_vars => GateInv'
  BY NextGate
<1>3. GateInv /\ [Next]_vars => [RunsInOrder]_vars
  BY NextGate
<1> QED
  BY <1>1, <1>2, <1>3, PTL DEF Spec, RunsOnceInOrder, RunsInOrder

-----------------------------------------------------------------------------
(* Types: a command rebuilds the shell at most once. *)

Scripts ==
    {<<>>, <<"push">>, <<"stage", "push">>, <<"rm", "stage", "push">>}

Todos == {<<"push">>, <<"stage">>, <<"stage", "push">>, <<"rm", "stage", "push">>}

Ghost == [shell : Shell, seq : SeqNo, todo : Todos, body : {"whole", "torn"}]
Sent == [shell : Shell, seq : SeqNo, phase : Phase, cut : BOOLEAN]
Answer == {"none", "done", "timeout", "lost"}

\* The setup of a shell, from teardown to its preamble.
InSetup == wpc \in {"teardown", "mkdir", "spawn", "up"}

\* A command of the caller is under way in the shell it was sent to.
Asked ==
    setupFor = "none" /\ wpc \in {"exec", "abandon", "restart", "alive", "probe",
                                  "restage", "marked", "repush", "wait"}

BoxTypes ==
    /\ dir \in [Shell -> BOOLEAN]
    /\ reader \in [Shell -> {"none", "idle", "run", "dead"}]
    /\ fifo \in [Shell -> Seq(SeqNo)]
    /\ last \in [Shell -> {0} \cup SeqNo]
    /\ body \in [Shell -> [SeqNo -> {"none", "whole", "torn"}]]
    /\ started \in [Shell -> SUBSET SeqNo] /\ done \in [Shell -> SUBSET SeqNo]
    /\ ran \in [Shell -> [SeqNo -> {"no", "whole", "torn"}]]
    /\ \A k \in Shell : reader[k] = "run" => last[k] # 0

CallTypes ==
    /\ phase \in Phase /\ cmd \in 0..MaxCmds
    /\ sent \in Seq(Sent) /\ Len(sent) = cmd
    /\ answer \in Seq(Answer) /\ Len(answer) = cmd
    /\ reconnects \in Nat /\ drops \in 0..MaxDrops

ClientTypes ==
    /\ setupFor \in {"none", "timeout", "restart"}
    /\ wpc \in {"idle", "exec", "teardown", "mkdir", "spawn", "up", "abandon",
                "restart", "alive", "probe", "restage", "marked", "repush",
                "wait", "ended"}
    /\ shell \in Nat \ {0} /\ seq \in Nat /\ pending \in {0, seq}
    /\ script \in Scripts

\* Where the worker is, and the number it works on.
Places ==
    /\ InSetup => setupFor # "none"
    /\ setupFor # "none" => InSetup \/ wpc = "exec"
    /\ Asked \/ wpc = "exec" => pending = seq /\ seq > 0
    /\ wpc \in {"spawn", "up"} => seq = 0

\* Shells and numbers are counted by the commands.
Counted ==
    /\ shell <= cmd + 1 /\ seq <= cmd + 1
    /\ Asked \/ wpc \in {"teardown", "mkdir"} => shell <= cmd
    /\ wpc \notin {"idle", "ended"} => cmd >= 1

TypeInv ==
    /\ BoxTypes /\ ghosts \subseteq Ghost /\ CallTypes /\ ClientTypes
    /\ Places /\ Counted

\* The commands sent stay what they are, but that one may be marked as cut.
SameCalls ==
    /\ sent' \in Seq(Sent) /\ Len(sent') = cmd
    /\ \A c \in 1..cmd : /\ sent'[c].shell = sent[c].shell
                         /\ sent'[c].seq = sent[c].seq
                         /\ sent'[c].phase = sent[c].phase
                         /\ sent[c].cut => sent'[c].cut

LEMMA InTypes ==
    ASSUME TypeInv
    PROVE  /\ shell \in Shell /\ seq \in {0} \cup SeqNo
           /\ cmd \in Nat /\ cmd <= MaxCmds /\ MaxCmds \in Nat
           /\ wpc \notin {"idle", "ended"} => cmd \in 1..Len(answer)
           /\ seq > 0 => seq \in SeqNo
BY DEF TypeInv, CallTypes, ClientTypes, Counted, Shell, SeqNo

LEMMA CutCalls ==
    ASSUME TypeInv, wpc \notin {"idle", "ended"},
           UNCHANGED sent \/ \E todo : CutIfStaging(todo)
    PROVE  /\ SameCalls
           /\ \A todo : CutIfStaging(todo) /\ Stages(todo) => sent'[cmd].cut
<1>1. sent \in Seq(Sent) /\ Len(sent) = cmd /\ cmd \in 1..cmd
  BY DEF TypeInv, CallTypes, Counted
<1>2. CASE UNCHANGED sent /\ ~\E todo : CutIfStaging(todo) /\ Stages(todo)
  BY <1>1, <1>2 DEF SameCalls
<1>3. CASE sent' = [sent EXCEPT ![cmd].cut = TRUE]
  <2> DEFINE r == [sent[cmd] EXCEPT !.cut = TRUE]
  <2>1. sent[cmd] \in Sent
    BY <1>1
  <2>2. /\ r \in Sent /\ r.shell = sent[cmd].shell /\ r.seq = sent[cmd].seq
        /\ r.phase = sent[cmd].phase /\ r.cut
    BY <2>1 DEF Sent
  <2>3. sent' = [sent EXCEPT ![cmd] = r]
    BY <1>3
  <2> HIDE DEF r
  <2>4. /\ sent' \in Seq(Sent) /\ Len(sent') = cmd /\ sent'[cmd] = r
        /\ \A c \in 1..cmd : c # cmd => sent'[c] = sent[c]
    BY <1>1, <2>2, <2>3
  <2> QED
    BY <2>2, <2>4 DEF SameCalls
<1> QED
  BY <1>2, <1>3 DEF CutIfStaging

LEMMA InitTypes == Init => TypeInv
<1> SUFFICES ASSUME Init PROVE TypeInv
  OBVIOUS
<1>1. 1 \in Shell /\ 1 \in SeqNo /\ <<>> \in Seq(SeqNo)
  BY DEF Shell, SeqNo
<1>2. BoxTypes
  <2>1. /\ dir \in [Shell -> BOOLEAN]
        /\ reader \in [Shell -> {"none", "idle", "run", "dead"}]
        /\ fifo \in [Shell -> Seq(SeqNo)]
        /\ last \in [Shell -> {0} \cup SeqNo]
    BY <1>1 DEF Init
  <2>2. /\ started \in [Shell -> SUBSET SeqNo] /\ done \in [Shell -> SUBSET SeqNo]
    BY <1>1 DEF Init
  <2>3. /\ body \in [Shell -> [SeqNo -> {"none", "whole", "torn"}]]
        /\ ran \in [Shell -> [SeqNo -> {"no", "whole", "torn"}]]
    BY DEF Init
  <2>4. \A k \in Shell : reader[k] # "run"
    BY DEF Init
  <2> QED
    BY <2>1, <2>2, <2>3, <2>4 DEF BoxTypes
<1>3. CallTypes
  BY DEF Init, CallTypes, Phase
<1>4. ClientTypes
  BY DEF Init, ClientTypes, Scripts
<1> QED
  BY <1>2, <1>3, <1>4 DEF Init, TypeInv, Places, Counted, Asked, InSetup

\* The steps of a script keep the files of a shell files.
LEMMA ApplyTypes ==
    ASSUME BoxTypes, NEW k \in Shell, NEW s \in SeqNo, NEW step \in Step,
           NEW b \in {"whole", "torn"}, Apply(k, s, step, b)
    PROVE  BoxTypes'
<1>1. UNCHANGED <<dir, reader, last, ran>>
  BY DEF Apply
<1>2. body' \in [Shell -> [SeqNo -> {"none", "whole", "torn"}]]
  <2>1. CASE step = "rm"
    <3>1. body' = [body EXCEPT ![k] = [r \in SeqNo |-> IF r = s - 1 THEN "none" ELSE @[r]]]
      BY <2>1 DEF Apply
    <3> QED
      BY <3>1 DEF BoxTypes
  <2>2. CASE step = "stage"
    <3>1. body' = [body EXCEPT ![k][s] = b]
      BY <2>2 DEF Apply
    <3> QED
      BY <3>1 DEF BoxTypes
  <2>3. CASE step = "push"
    <3>1. body' = body
      BY <2>3 DEF Apply
    <3> QED
      BY <3>1 DEF BoxTypes
  <2> QED
    BY <2>1, <2>2, <2>3 DEF Step
<1>3. started' \in [Shell -> SUBSET SeqNo] /\ done' \in [Shell -> SUBSET SeqNo]
  BY DEF Apply, BoxTypes
<1>4. fifo' \in [Shell -> Seq(SeqNo)]
  <2>1. fifo[k] \in Seq(SeqNo)
    BY DEF BoxTypes
  <2>2. Append(fifo[k], s) \in Seq(SeqNo)
    BY <2>1
  <2> QED
    BY <2>2 DEF Apply, BoxTypes
<1> QED
  BY <1>1, <1>2, <1>3, <1>4 DEF BoxTypes

\* The reader and the processes of the container.
LEMMA ReaderTypes ==
    ASSUME TypeInv, NEW k \in Shell,
           SkipToken(k) \/ TakeToken(k) \/ CommandEnds(k) \/ ReaderDies(k)
    PROVE  TypeInv'
<1>1. UNCHANGED <<ghosts, callVars, clientVars, drops>>
  BY DEF SkipToken, TakeToken, CommandEnds, ReaderDies
<1>2. BoxTypes'
  <2>1. CASE SkipToken(k) \/ TakeToken(k)
    <3> DEFINE s == Head(fifo[k])
    <3>1. s \in SeqNo /\ Tail(fifo[k]) \in Seq(SeqNo)
      BY <2>1 DEF SkipToken, TakeToken, TypeInv, BoxTypes
    <3>2. fifo' = [fifo EXCEPT ![k] = Tail(@)] /\ UNCHANGED <<dir, body>>
      BY <2>1 DEF SkipToken, TakeToken
    <3>3. fifo' \in [Shell -> Seq(SeqNo)]
      BY <3>1, <3>2 DEF TypeInv, BoxTypes
    <3>4. CASE SkipToken(k)
      BY <3>2, <3>3, <3>4 DEF SkipToken, TypeInv, BoxTypes
    <3>5. CASE TakeToken(k)
      <4>1. /\ last' = [last EXCEPT ![k] = s]
            /\ started' = [started EXCEPT ![k] = @ \cup {s}]
            /\ \/ done' = [done EXCEPT ![k] = @ \cup {s}] /\ UNCHANGED <<reader, ran>>
               \/ /\ reader' = [reader EXCEPT ![k] = "run"]
                  /\ body[k][s] # "none" /\ ran' = [ran EXCEPT ![k][s] = body[k][s]]
                  /\ UNCHANGED done
        BY <3>5 DEF TakeToken
      <4>2. body[k][s] # "none" => body[k][s] \in {"no", "whole", "torn"}
        BY <3>1 DEF TypeInv, BoxTypes
      <4>3. s # 0
        BY <3>1 DEF SeqNo
      <4> HIDE DEF s
      <4>4. last' \in [Shell -> {0} \cup SeqNo]
        BY <3>1, <4>1 DEF TypeInv, BoxTypes
      <4>5. started' \in [Shell -> SUBSET SeqNo]
        BY <3>1, <4>1 DEF TypeInv, BoxTypes
      <4>6. done' \in [Shell -> SUBSET SeqNo]
        <5>1. done' = [done EXCEPT ![k] = @ \cup {s}] \/ done' = done
          BY <4>1
        <5>2. done \in [Shell -> SUBSET SeqNo]
          BY DEF TypeInv, BoxTypes
        <5> QED
          BY <3>1, <5>1, <5>2
      <4>7. reader' \in [Shell -> {"none", "idle", "run", "dead"}]
        BY <4>1 DEF TypeInv, BoxTypes
      <4>8. ran' \in [Shell -> [SeqNo -> {"no", "whole", "torn"}]]
        <5>1. CASE UNCHANGED ran
          BY <5>1 DEF TypeInv, BoxTypes
        <5>2. CASE body[k][s] # "none" /\ ran' = [ran EXCEPT ![k][s] = body[k][s]]
          <6> DEFINE b == body[k][s]
          <6>1. b \in {"no", "whole", "torn"} /\ ran' = [ran EXCEPT ![k][s] = b]
            BY <4>2, <5>2
          <6> HIDE DEF b
          <6> QED
            BY <3>1, <6>1 DEF TypeInv, BoxTypes
        <5> QED
          BY <4>1, <5>1, <5>2
      <4>9. \A j \in Shell : reader'[j] = "run" => last'[j] # 0
        BY <4>1, <4>3 DEF TypeInv, BoxTypes
      <4> QED
        BY <3>2, <3>3, <4>4, <4>5, <4>6, <4>7, <4>8, <4>9 DEF TypeInv, BoxTypes
    <3> QED
      BY <2>1, <3>4, <3>5
  <2>2. CASE CommandEnds(k)
    <3>1. last[k] \in SeqNo
      <4>1. last[k] # 0
        BY <2>2 DEF CommandEnds, TypeInv, BoxTypes
      <4> QED
        BY <4>1 DEF TypeInv, BoxTypes
    <3> QED
      BY <2>2, <3>1 DEF CommandEnds, TypeInv, BoxTypes
  <2>3. CASE ReaderDies(k)
    BY <2>3 DEF ReaderDies, TypeInv, BoxTypes
  <2> QED
    BY <2>1, <2>2, <2>3
<1> QED
  BY <1>1, <1>2 DEF TypeInv, CallTypes, ClientTypes, Places, Counted, Asked, InSetup,
     callVars, clientVars

LEMMA ToldTypes ==
    ASSUME TypeInv, cmd >= 1, NEW x \in Answer, Told(x)
    PROVE  answer' \in Seq(Answer) /\ Len(answer') = cmd
<1>1. answer \in Seq(Answer) /\ Len(answer) = cmd /\ cmd \in 1..Len(answer)
  BY InTypes DEF TypeInv, CallTypes
<1> QED
  BY <1>1 DEF Told

LEMMA DropTypes ==
    ASSUME TypeInv, Drop \/ UNCHANGED drops
    PROVE  drops' \in 0..MaxDrops
BY DEF TypeInv, CallTypes, Drop

\* What a broken pipe leads to, whoever meets it.
LEMMA BrokenTypes ==
    ASSUME TypeInv, AfterBroken, wpc \notin {"idle", "ended"}
    PROVE  /\ answer' \in Seq(Answer) /\ Len(answer') = cmd
           /\ setupFor' = "none" /\ wpc' \in {"idle", "ended", "restart", "abandon"}
           /\ setupFor # "none" => wpc' \in {"idle", "ended"}
<1>1. cmd >= 1
  BY DEF TypeInv, Counted
<1>2. CASE setupFor \in {"timeout", "restart"}
  BY <1>1, <1>2, ToldTypes DEF AfterBroken, Answer
<1>3. CASE setupFor = "none"
  BY <1>3 DEF AfterBroken, TypeInv, CallTypes
<1> QED
  BY <1>2, <1>3 DEF TypeInv, ClientTypes

LEMMA NewGhostTypes ==
    ASSUME TypeInv, NEW s \in SeqNo, NEW todo \in Scripts \cup Todos,
           NEW new \in Ghosts(s, todo)
    PROVE  new \subseteq Ghost
<1>1. CASE todo = <<>>
  BY <1>1 DEF Ghosts
<1>2. CASE todo # <<>>
  <2>1. todo \in Todos
    BY <1>2 DEF Scripts, Todos
  <2>2. \A g \in new : \E b \in {"whole", "torn"} :
           g = [shell |-> shell, seq |-> s, todo |-> todo, body |-> b]
    BY <1>2 DEF Ghosts
  <2> QED
    BY <2>1, <2>2, InTypes DEF Ghost
<1> QED
  BY <1>1, <1>2

\* What the steps of a script leave to do.
LEMMA TodoSteps ==
    ASSUME NEW t \in Todos
    PROVE  \/ t = <<"push">> /\ Head(t) = "push" /\ Tail(t) = <<>>
           \/ t = <<"stage">> /\ Head(t) = "stage" /\ Tail(t) = <<>>
           \/ t = <<"stage", "push">> /\ Head(t) = "stage" /\ Tail(t) = <<"push">>
           \/ /\ t = <<"rm", "stage", "push">> /\ Head(t) = "rm"
              /\ Tail(t) = <<"stage", "push">>
<1>1. CASE t = <<"push">>
  BY <1>1
<1>2. CASE t = <<"stage">>
  BY <1>2
<1>3. CASE t = <<"stage", "push">>
  BY <1>3
<1>4. CASE t = <<"rm", "stage", "push">>
  BY <1>4
<1> QED
  BY <1>1, <1>2, <1>3, <1>4 DEF Todos

\* Ghosts do what their scripts have left to do.
LEMMA GhostTypes ==
    ASSUME TypeInv, GhostStep
    PROVE  TypeInv'
<1>1. PICK g \in ghosts :
        /\ Apply(g.shell, g.seq, Head(g.todo), g.body)
        /\ ghosts' = (ghosts \ {g}) \cup
             {h \in {[g EXCEPT !.todo = Tail(@)]} : h.todo # <<>>}
  BY DEF GhostStep
<1>2. g \in Ghost
  BY DEF TypeInv
<1>3. Head(g.todo) \in Step /\ Tail(g.todo) \in Todos \cup {<<>>}
  BY <1>2, TodoSteps DEF Ghost, Todos, Step
<1>4. BoxTypes'
  BY <1>1, <1>2, <1>3, ApplyTypes DEF TypeInv, Ghost
<1>5. ghosts' \subseteq Ghost
  <2> DEFINE h == [g EXCEPT !.todo = Tail(@)]
  <2>1. h.todo # <<>> => h \in Ghost
    BY <1>2, <1>3 DEF Ghost
  <2> HIDE DEF h
  <2>2. ghosts' \subseteq ghosts \cup {h} /\ (h \in ghosts' => h \in ghosts \/ h.todo # <<>>)
    BY <1>1 DEF h
  <2> QED
    BY <2>1, <2>2 DEF TypeInv
<1> QED
  BY <1>4, <1>5 DEF GhostStep, TypeInv, CallTypes, ClientTypes, Places, Counted, Asked,
     InSetup, callVars, clientVars

\* The caller sends a command.
LEMMA RunBashTypes ==
    ASSUME TypeInv, RunBash
    PROVE  TypeInv'
<1>1. /\ wpc = "idle" /\ cmd < MaxCmds /\ cmd' = cmd + 1 /\ seq' = seq + 1
      /\ pending' = seq + 1 /\ script' = <<"rm", "stage", "push">> /\ wpc' = "exec"
      /\ UNCHANGED <<boxVars, ghosts, phase, reconnects, setupFor, shell, drops>>
  BY DEF RunBash, Send
<1>2. seq \in Nat /\ cmd \in Nat /\ seq <= cmd + 1 /\ shell <= cmd + 1 /\ shell \in Nat
      /\ setupFor = "none"
  BY <1>1 DEF TypeInv, CallTypes, ClientTypes, Counted, Places, InSetup
<1>3. [shell |-> shell, seq |-> seq + 1, phase |-> phase,
          cut |-> FALSE] \in Sent
  BY <1>1, <1>2, InTypes DEF Sent, SeqNo, TypeInv, CallTypes
<1>4. sent' \in Seq(Sent) /\ Len(sent') = cmd + 1
  BY <1>3 DEF RunBash, TypeInv, CallTypes
<1>5. answer' \in Seq(Answer) /\ Len(answer') = cmd + 1
  BY DEF RunBash, TypeInv, CallTypes, Answer
<1>6. CallTypes'
  BY <1>1, <1>2, <1>4, <1>5 DEF TypeInv, CallTypes
<1>7. ClientTypes'
  BY <1>1, <1>2 DEF TypeInv, ClientTypes, Scripts
<1>8. Places' /\ Counted'
  BY <1>1, <1>2 DEF Places, Counted, Asked, InSetup
<1> QED
  BY <1>1, <1>6, <1>7, <1>8 DEF TypeInv, BoxTypes, boxVars

\* A step of the worker on the command, or the shell, it is at.
LEMMA WorkerMoves ==
    ASSUME TypeInv, wpc \notin {"idle", "ended"}, UNCHANGED <<phase, cmd, shell, seq>>,
           UNCHANGED sent \/ SameCalls, BoxTypes', ghosts' \subseteq Ghost,
           answer' \in Seq(Answer), Len(answer') = cmd, reconnects' \in Nat,
           drops' \in 0..MaxDrops, ClientTypes', Places',
           Asked' \/ wpc' \in {"teardown", "mkdir"} =>
              Asked \/ wpc \in {"teardown", "mkdir"}
    PROVE  TypeInv'
BY DEF TypeInv, CallTypes, Counted, SameCalls

LEMMA AnswersKept ==
    ASSUME TypeInv
    PROVE  /\ answer \in Seq(Answer) /\ Len(answer) = cmd /\ reconnects \in Nat
           /\ drops \in 0..MaxDrops /\ BoxTypes /\ ghosts \subseteq Ghost
           /\ ClientTypes /\ Places
           /\ wpc \notin {"idle", "ended"} => cmd >= 1
BY DEF TypeInv, CallTypes, Counted

LEMMA BoxKept == BoxTypes /\ UNCHANGED boxVars => BoxTypes'
BY DEF BoxTypes, boxVars

\* The steps that stage or push.
LEMMA PushTypes ==
    ASSUME TypeInv, ScriptStep \/ Restage \/ Repush
    PROVE  TypeInv'
<1>1. seq \in SeqNo /\ pending = seq /\ shell \in Shell
  BY InTypes DEF ScriptStep, Restage, Repush, TypeInv, Places, InSetup, Asked
<1>2. CASE ScriptStep
  <2>1. Head(script) \in Step /\ Tail(script) \in Scripts /\ wpc = "exec"
    <3>1. script \in Todos
      BY <1>2 DEF ScriptStep, TypeInv, ClientTypes, Scripts, Todos
    <3> QED
      BY <1>2, <3>1, TodoSteps DEF ScriptStep, Step, Scripts
  <2>2. BoxTypes'
    BY <1>1, <1>2, <2>1, ApplyTypes DEF ScriptStep, TypeInv
  <2>3. ClientTypes' /\ Places'
    BY <1>2, <2>1, AnswersKept DEF ScriptStep, ClientTypes, Places, Asked, InSetup
  <2> QED
    BY <1>2, <2>2, <2>3, AnswersKept, WorkerMoves DEF ScriptStep, callVars, Asked
<1>3. CASE Restage \/ Repush
  <2>1. BoxTypes'
    BY <1>1, <1>3, ApplyTypes DEF Restage, Repush, TypeInv, Step
  <2>2. ClientTypes' /\ Places'
    BY <1>3, AnswersKept DEF Restage, Repush, ClientTypes, Places, Asked, InSetup
  <2> QED
    BY <1>3, <2>1, <2>2, AnswersKept, WorkerMoves
    DEF Restage, Repush, callVars, Asked, Places, InSetup
<1> QED
  BY <1>2, <1>3

\* A combined script that fails, and an ssh call of the recovery that does.
LEMMA FailTypes ==
    ASSUME TypeInv, ExecDrops \/ ExecFails \/ RecoveryDrops
    PROVE  TypeInv'
<1>1. /\ UNCHANGED <<boxVars, phase, cmd, reconnects, shell, seq, pending>>
      /\ wpc \in {"exec", "probe", "restage", "marked", "repush", "wait"}
  BY DEF ExecDrops, ExecFails, RecoveryDrops, callVars
<1>7. SameCalls
  BY <1>1, CutCalls DEF ExecDrops, ExecFails, RecoveryDrops
<1>2. seq \in SeqNo /\ pending = seq
  BY <1>1, InTypes DEF TypeInv, Places, InSetup, Asked
<1>3. drops' \in 0..MaxDrops
  BY DropTypes DEF ExecDrops, ExecFails, RecoveryDrops
<1>4. BoxTypes'
  BY <1>1, BoxKept, AnswersKept
<1>5. CASE ExecDrops \/ ExecFails
  <2>1. ghosts' \subseteq Ghost
    <3>1. script \in Scripts \cup Todos
      BY AnswersKept DEF ClientTypes
    <3> QED
      BY <1>2, <1>5, <3>1, NewGhostTypes DEF ExecDrops, ExecFails, TypeInv
  <2>2. /\ answer' \in Seq(Answer) /\ Len(answer') = cmd
        /\ setupFor' = "none" /\ wpc' \in {"idle", "ended", "restart", "abandon"}
        /\ setupFor # "none" => wpc' \in {"idle", "ended"}
    BY <1>5, BrokenTypes DEF ExecDrops, ExecFails
  <2>3. script' = <<>> /\ wpc = "exec"
    BY <1>5 DEF ExecDrops, ExecFails
  <2>4. ClientTypes' /\ Places'
    BY <1>1, <1>2, <2>2, <2>3, AnswersKept
    DEF ClientTypes, Places, Asked, InSetup, Scripts
  <2> QED
    BY <1>1, <1>3, <1>4, <1>7, <2>1, <2>2, <2>3, <2>4, AnswersKept, WorkerMoves
    DEF Asked, ClientTypes
<1>6. CASE RecoveryDrops
  <2>1. ghosts' \subseteq Ghost
    <3> DEFINE todo == CASE wpc = "restage" -> <<"stage">>
                         [] wpc = "repush" -> <<"push">>
                         [] OTHER -> <<>>
    <3>1. todo \in Scripts \cup Todos
      BY DEF Scripts, Todos
    <3>2. PICK new \in Ghosts(pending, todo) : ghosts' = ghosts \cup new
      BY <1>6 DEF RecoveryDrops
    <3> QED
      BY <1>2, <3>1, <3>2, NewGhostTypes DEF TypeInv
  <2>2. UNCHANGED <<answer, setupFor, script>> /\ wpc' = "restart" /\ Asked
    BY <1>1, <1>6, AnswersKept DEF RecoveryDrops, callVars, Places, InSetup, Asked
  <2>3. ClientTypes' /\ Places'
    BY <1>1, <1>2, <2>2, AnswersKept DEF ClientTypes, Places, Asked, InSetup
  <2> QED
    BY <1>1, <1>3, <1>4, <1>7, <2>1, <2>2, <2>3, AnswersKept, WorkerMoves
<1> QED
  BY <1>5, <1>6

\* A shell is torn down and another one set up.
LEMMA SetupTypes ==
    ASSUME TypeInv, Setup
    PROVE  TypeInv'
<1>1. CASE Teardown
  <2>1. BoxTypes'
    <3>1. CASE Killed(shell)
      <4>1. Blank("none") \in [SeqNo -> {"none", "whole", "torn"}] /\ <<>> \in Seq(SeqNo)
            /\ {} \in SUBSET SeqNo
        BY DEF Blank
      <4> HIDE DEF Blank
      <4>2. /\ dir' \in [Shell -> BOOLEAN]
            /\ reader' \in [Shell -> {"none", "idle", "run", "dead"}]
            /\ fifo' \in [Shell -> Seq(SeqNo)]
        BY <3>1, <4>1, AnswersKept DEF Killed, BoxTypes
      <4>3. /\ body' \in [Shell -> [SeqNo -> {"none", "whole", "torn"}]]
            /\ started' \in [Shell -> SUBSET SeqNo] /\ done' \in [Shell -> SUBSET SeqNo]
        BY <3>1, <4>1, AnswersKept DEF Killed, BoxTypes
      <4> QED
        BY <3>1, <4>2, <4>3, AnswersKept DEF Killed, BoxTypes
    <3> QED
      BY <1>1, <3>1, BoxKept, AnswersKept DEF Teardown
  <2>2. ClientTypes' /\ Places'
    BY <1>1, AnswersKept DEF Teardown, ClientTypes, Places, Asked, InSetup
  <2>3. drops' \in 0..MaxDrops
    BY <1>1, DropTypes DEF Teardown
  <2> QED
    BY <1>1, <2>1, <2>2, <2>3, AnswersKept, WorkerMoves DEF Teardown, callVars
<1>2. CASE MakeDir
  <2>1. shell + 1 \in Shell /\ shell \in Nat /\ shell <= cmd /\ cmd >= 1 /\ setupFor # "none"
    BY <1>2, InTypes DEF MakeDir, TypeInv, ClientTypes, Counted, Places, InSetup, Shell
  <2>2. /\ shell' = shell + 1 /\ seq' = 0 /\ pending' = 0
        /\ UNCHANGED <<reader, fifo, last, body, started, done, ran, ghosts, phase,
                       cmd, sent, reconnects, script>>
        /\ \E made \in BOOLEAN : dir' = [dir EXCEPT ![shell + 1] = made]
    BY <1>2 DEF MakeDir
  <2>3. BoxTypes'
    BY <2>1, <2>2, AnswersKept DEF BoxTypes
  <2>4. drops' \in 0..MaxDrops
    BY <1>2, DropTypes DEF MakeDir
  <2>5. /\ answer' \in Seq(Answer) /\ Len(answer') = cmd
        /\ \/ wpc' = "spawn" /\ setupFor' = setupFor
           \/ wpc' \in {"idle", "ended"} /\ setupFor' = "none"
    BY <1>2, <2>1, BrokenTypes, AnswersKept DEF MakeDir
  <2>6. ClientTypes' /\ Places' /\ Counted'
    BY <2>1, <2>2, <2>5, AnswersKept
    DEF ClientTypes, Places, Counted, Asked, InSetup, TypeInv, CallTypes
  <2> QED
    BY <2>2, <2>3, <2>4, <2>5, <2>6 DEF TypeInv, CallTypes
<1>3. CASE Spawn
  <2>1. BoxTypes'
    BY <1>3, InTypes, AnswersKept DEF Spawn, BoxTypes
  <2>2. ClientTypes' /\ Places'
    BY <1>3, AnswersKept DEF Spawn, ClientTypes, Places, Asked, InSetup
  <2>3. drops' \in 0..MaxDrops
    BY <1>3, DropTypes DEF Spawn
  <2> QED
    BY <1>3, <2>1, <2>2, <2>3, AnswersKept, WorkerMoves DEF Spawn, callVars, Asked
<1>4. CASE RunPreamble
  <2>1. seq' = 1 /\ pending' = 1 /\ script' = <<"rm", "stage", "push">> /\ wpc' = "exec"
        /\ UNCHANGED <<boxVars, ghosts, callVars, setupFor, shell, drops>> /\ wpc = "up"
    BY <1>4 DEF RunPreamble, Send
  <2>2. ClientTypes' /\ Places' /\ Counted'
    BY <2>1, AnswersKept DEF ClientTypes, Places, Counted, Asked, InSetup, TypeInv,
       callVars, CallTypes, Scripts
  <2> QED
    BY <2>1, <2>2, BoxKept DEF TypeInv, CallTypes, callVars
<1>5. CASE NotUp
  <2>1. /\ answer' \in Seq(Answer) /\ Len(answer') = cmd
        /\ setupFor' = "none" /\ wpc' \in {"idle", "ended"}
    BY <1>5, BrokenTypes, AnswersKept DEF NotUp, Places, InSetup
  <2>2. ClientTypes' /\ Places'
    BY <1>5, <2>1, AnswersKept DEF NotUp, ClientTypes, Places, Asked, InSetup
  <2>3. drops' \in 0..MaxDrops
    BY <1>5, DropTypes DEF NotUp
  <2> QED
    BY <1>5, <2>1, <2>2, <2>3, AnswersKept, BoxKept, WorkerMoves DEF NotUp, Asked
<1>6. CASE SetupDone
  <2>1. /\ answer' \in Seq(Answer) /\ Len(answer') = cmd
        /\ setupFor' = "none" /\ wpc' \in {"idle", "ended"}
    BY <1>6, ToldTypes, AnswersKept DEF SetupDone, AfterRebuild, Answer
  <2>2. ClientTypes' /\ Places'
    BY <1>6, <2>1, AnswersKept DEF SetupDone, ClientTypes, Places, Asked, InSetup
  <2> QED
    BY <1>6, <2>1, <2>2, AnswersKept, BoxKept, WorkerMoves DEF SetupDone, Asked
<1> QED
  BY <1>1, <1>2, <1>3, <1>4, <1>5, <1>6 DEF Setup

\* Replies, timeouts and what the caller does about a broken connection.
LEMMA CallerTypes ==
    ASSUME TypeInv,
           \/ Reply \/ TimeOut \/ GraderGoesOn \/ GraderRetries \/ Reattach \/ GiveUp
           \/ FoundAlive \/ FoundDead \/ ProbeBody \/ ProbeStarted \/ RepushFails
    PROVE  TypeInv'
<1>1. /\ UNCHANGED <<boxVars, ghosts, phase, cmd, sent, shell, seq, script>>
      /\ pending' \in {0, pending} /\ setupFor' \in {setupFor, "timeout", "restart"}
      /\ Asked
  BY AnswersKept DEF Reply, TimeOut, Expired, GraderGoesOn, GraderRetries, Reattach, GiveUp,
     FoundAlive, FoundDead, ProbeBody, ProbeStarted, RepushFails, callVars, Asked,
     Places, InSetup
<1>2. drops' \in 0..MaxDrops
  BY DropTypes DEF Reply, TimeOut, GraderGoesOn, GraderRetries, Reattach, GiveUp,
     FoundAlive, FoundDead, ProbeBody, ProbeStarted, RepushFails
<1>3. reconnects' \in Nat
  BY AnswersKept DEF Reply, TimeOut, GraderGoesOn, GraderRetries, Reattach, GiveUp,
     FoundAlive, FoundDead, ProbeBody, ProbeStarted, RepushFails, callVars
<1>4. answer' \in Seq(Answer) /\ Len(answer') = cmd
  <2>1. UNCHANGED answer \/ \E x \in Answer : Told(x)
    BY DEF Reply, TimeOut, GraderGoesOn, GraderRetries, Reattach, GiveUp,
       FoundAlive, FoundDead, ProbeBody, ProbeStarted, RepushFails, callVars, Answer
  <2>2. cmd >= 1
    BY <1>1, AnswersKept DEF Asked
  <2> QED
    BY <2>1, <2>2, ToldTypes, AnswersKept
<1>5. \/ wpc' = "teardown" /\ setupFor' # "none"
      \/ wpc' \in {"idle", "ended"} /\ setupFor' = "none"
      \/ /\ wpc' \in {"restart", "alive", "probe", "restage", "marked", "repush", "wait"}
         /\ setupFor' = "none" /\ pending' = pending
  BY <1>1 DEF Reply, TimeOut, GraderGoesOn, GraderRetries, Reattach, GiveUp,
     FoundAlive, FoundDead, ProbeBody, ProbeStarted, RepushFails, Asked
<1>6. ClientTypes' /\ Places'
  BY <1>1, <1>5, AnswersKept DEF ClientTypes, Places, Asked, InSetup
<1>7. BoxTypes'
  BY <1>1, BoxKept, AnswersKept
<1> QED
  BY <1>1, <1>2, <1>3, <1>4, <1>6, <1>7, WorkerMoves, AnswersKept DEF Asked

LEMMA RecoveredTypes ==
    ASSUME TypeInv, Recovered
    PROVE  TypeInv'
<1>1. Asked /\ pending \in SeqNo
  BY InTypes DEF Recovered, TypeInv, Places, InSetup, Asked
<1>2. BoxTypes'
  <2>1. CASE UNCHANGED boxVars
    BY <2>1, BoxKept, AnswersKept
  <2>2. CASE /\ body' = [body EXCEPT ![shell][pending] = "none"]
             /\ started' = [started EXCEPT ![shell] = @ \ {pending}]
             /\ done' = [done EXCEPT ![shell] = @ \ {pending}]
             /\ UNCHANGED <<dir, reader, fifo, last, ran>>
    BY <1>1, <2>2, InTypes, AnswersKept DEF BoxTypes
  <2> QED
    BY <2>1, <2>2 DEF Recovered
<1>3. answer' \in Seq(Answer) /\ Len(answer') = cmd /\ drops' \in 0..MaxDrops
  BY <1>1, ToldTypes, DropTypes, AnswersKept DEF Recovered, Asked, Answer
<1>4. ClientTypes' /\ Places'
  BY <1>1, AnswersKept DEF Recovered, ClientTypes, Places, Asked, InSetup
<1> QED
  BY <1>1, <1>2, <1>3, <1>4, AnswersKept, WorkerMoves DEF Recovered, Asked

LEMMA NextTypes ==
    ASSUME TypeInv, [Next]_vars
    PROVE  TypeInv'
<1>1. CASE Worker
  BY <1>1, PushTypes, FailTypes, SetupTypes, CallerTypes, RecoveredTypes
  DEF Worker, Recovery
<1>2. CASE Container \/ \E k \in Shell : ReaderDies(k)
  BY <1>2, ReaderTypes DEF Container
<1>3. CASE Submit
  <2>1. CallTypes'
    BY <1>3 DEF Submit, TypeInv, CallTypes, Phase
  <2> QED
    BY <1>3, <2>1, BoxKept DEF Submit, TypeInv, CallTypes, ClientTypes, Places, Counted,
       Asked, InSetup, clientVars
<1>4. CASE UNCHANGED vars
  BY <1>4, BoxKept DEF vars, TypeInv, CallTypes, ClientTypes, Places, Counted, Asked,
     InSetup, callVars, clientVars
<1> QED
  BY <1>1, <1>2, <1>3, <1>4, GhostTypes, RunBashTypes DEF Next

LEMMA ScriptsAreShort ==
    ASSUME NEW t \in Scripts \cup Todos
    PROVE  t \in Seq(Step) /\ Len(t) <= 3
<1>0. "rm" \in Step /\ "stage" \in Step /\ "push" \in Step
  BY DEF Step
<1>1. CASE t = <<>>
  BY <1>1
<1>2. CASE t = <<"push">>
  BY <1>0, <1>2
<1>3. CASE t = <<"stage">>
  BY <1>0, <1>3
<1>6. CASE t = <<"stage", "push">>
  BY <1>0, <1>6
<1>4. CASE t = <<"rm", "stage", "push">>
  <2> DEFINE whole == <<"rm", "stage", "push">>
  <2>1. whole \in Seq(Step) /\ Len(whole) = 3
    BY <1>0
  <2> HIDE DEF whole
  <2> QED
    BY <1>4, <2>1 DEF whole
<1>5. t \in {<<>>, <<"push">>, <<"stage">>, <<"stage", "push">>, <<"rm", "stage", "push">>}
  BY DEF Scripts, Todos
<1> QED
  BY <1>1, <1>2, <1>3, <1>4, <1>5, <1>6

LEMMA TypesHold == Spec => []TypeInv
<1>1. TypeInv /\ [Next]_vars => TypeInv'
  BY NextTypes
<1> QED
  BY <1>1, InitTypes, PTL DEF Spec

\* The state keeps its types: in particular a command rebuilds the shell at
\* most once, whatever drops and restarts it meets, so that commands bound the
\* shells and their numbers (_vacli/backend.py _setup_fifo_shell, _fifo_run).
THEOREM TypeCorrect == Spec => []TypeOK
<1>1. TypeInv => TypeOK
  <2>1. SUFFICES ASSUME TypeInv PROVE TypeOK
    OBVIOUS
  <2>2. \A g \in ghosts : /\ g.shell \in Shell /\ g.seq \in SeqNo
                          /\ g.todo \in Seq(Step) /\ g.todo # <<>>
    <3>1. \A t \in Todos : t \in Seq(Step) /\ t # <<>>
      BY ScriptsAreShort, SMTT(30) DEF Todos
    <3> QED
      BY <2>1, <3>1 DEF TypeInv, Ghost
  <2>3. script \in Seq(Step) /\ Len(script) <= 3
    BY <2>1, ScriptsAreShort DEF TypeInv, ClientTypes
  <2> QED
    BY <2>1, <2>2, <2>3, InTypes DEF TypeInv, TypeOK, BoxTypes, CallTypes, ClientTypes
<1> QED
  BY <1>1, TypesHold, PTL

-----------------------------------------------------------------------------
(* Answers: what is reported as completed ran.                              *)

\* Nothing has happened in a shell that is not there yet.
Unborn(k) ==
    /\ fifo[k] = <<>> /\ last[k] = 0 /\ done[k] = {} /\ reader[k] # "run"
    /\ \A g \in ghosts : g.shell # k

Virgin == \A k \in Shell : k > shell \/ (k = shell /\ seq = 0) => Unborn(k)

\* No number of the current shell is above the client's.
NoFuture ==
    /\ last[shell] <= seq
    /\ \A i \in 1..Len(fifo[shell]) : fifo[shell][i] <= seq
    /\ \A g \in ghosts : g.shell = shell => g.seq <= seq

\* Done markers are of numbers that were taken and are not running.
DoneTaken ==
    \A k \in Shell : /\ \A s \in done[k] : s <= last[k]
                     /\ reader[k] = "run" => last[k] \notin done[k]

BirthInv == Virgin /\ NoFuture /\ DoneTaken

\* A number s of shell k has been given out.
Given(k, s) == k <= shell /\ (k = shell => s <= seq /\ seq > 0)

LEMMA GhostsGiven ==
    ASSUME TypeInv, BirthInv, NEW g \in ghosts
    PROVE  /\ g \in Ghost /\ g.shell \in Shell /\ g.seq \in SeqNo
           /\ Given(g.shell, g.seq)
<1>1. g \in Ghost /\ g.shell \in Shell /\ g.seq \in SeqNo
  BY DEF TypeInv, Ghost
<1>2. ~(g.shell > shell) /\ ~(g.shell = shell /\ seq = 0)
  BY <1>1 DEF BirthInv, Virgin, Unborn
<1>3. seq > 0 \/ seq = 0
  BY DEF TypeInv, ClientTypes
<1> QED
  BY <1>1, <1>2, <1>3, InTypes DEF Given, BirthInv, NoFuture, Shell

\* Steps that push nothing but numbers given out, and take none.
LEMMA CalmBirths ==
    ASSUME TypeInv, BirthInv, TypeInv', UNCHANGED last, shell' = shell, seq' >= seq,
           \A k \in Shell : done'[k] \subseteq done[k],
           \A k \in Shell : reader'[k] = "run" => reader[k] = "run",
           \A k \in Shell :
              \/ fifo'[k] = fifo[k] \/ fifo'[k] = <<>>
              \/ \E s \in SeqNo : fifo'[k] = Append(fifo[k], s) /\ Given(k, s),
           \A g \in ghosts' : g \in ghosts \/ Given(g.shell, g.seq)
    PROVE  BirthInv'
<1>1. shell \in Shell /\ seq \in Nat /\ seq' \in Nat
  BY InTypes DEF TypeInv, ClientTypes
<1>2. \A g \in ghosts' : Given(g.shell, g.seq) /\ g.shell \in Shell /\ g.seq \in SeqNo
  BY GhostsGiven DEF TypeInv, Ghost
<1>3. Virgin'
  <2> SUFFICES ASSUME NEW k \in Shell, k > shell \/ (k = shell /\ seq = 0)
               PROVE  Unborn(k)'
    BY <1>1 DEF Virgin
  <2>1. Unborn(k) /\ \A s \in SeqNo : ~Given(k, s)
    BY <1>1 DEF BirthInv, Virgin, Given, Shell
  <2>2. \A g \in ghosts' : g.shell # k
    BY <1>2, <2>1
  <2> QED
    BY <2>1, <2>2 DEF Unborn
<1>4. NoFuture'
  <2>1. last'[shell] <= seq'
    <3>1. last[shell] <= seq /\ last[shell] \in {0} \cup SeqNo
      BY <1>1 DEF BirthInv, NoFuture, TypeInv, BoxTypes
    <3> QED
      BY <1>1, <3>1 DEF SeqNo
  <2>2. ASSUME NEW i \in 1..Len(fifo'[shell])
        PROVE  fifo'[shell][i] <= seq'
    <3>1. fifo[shell] \in Seq(SeqNo)
      BY <1>1 DEF TypeInv, BoxTypes
    <3>2. CASE fifo'[shell] = fifo[shell] \/ fifo'[shell] = <<>>
      BY <1>1, <2>2, <3>1, <3>2 DEF BirthInv, NoFuture, SeqNo
    <3>3. CASE \E s \in SeqNo : fifo'[shell] = Append(fifo[shell], s) /\ Given(shell, s)
      <4>1. PICK s \in SeqNo : fifo'[shell] = Append(fifo[shell], s) /\ s <= seq
        BY <3>3 DEF Given
      <4> DEFINE q == fifo[shell]
      <4>2. i = Len(q) + 1 \/ i \in 1..Len(q)
        BY <2>2, <3>1, <4>1
      <4>3. i = Len(q) + 1 => fifo'[shell][i] = s
        BY <2>2, <3>1, <4>1
      <4>4. i \in 1..Len(q) => fifo'[shell][i] = q[i] /\ q[i] \in SeqNo
        BY <2>2, <3>1, <4>1
      <4> QED
        BY <1>1, <4>1, <4>2, <4>3, <4>4 DEF BirthInv, NoFuture, SeqNo
    <3> QED
      BY <1>1, <3>2, <3>3
  <2>3. \A g \in ghosts' : g.shell = shell => g.seq <= seq'
    BY <1>1, <1>2 DEF Given, SeqNo
  <2> QED
    BY <2>1, <2>2, <2>3 DEF NoFuture
<1>5. DoneTaken'
  BY DEF BirthInv, DoneTaken
<1> QED
  BY <1>3, <1>4, <1>5 DEF BirthInv

\* The reader takes numbers that were given out, in order.
LEMMA ReaderBirths ==
    ASSUME TypeInv, BirthInv, NEW k \in Shell,
           SkipToken(k) \/ TakeToken(k) \/ CommandEnds(k) \/ ReaderDies(k)
    PROVE  BirthInv'
<1>1. UNCHANGED <<shell, seq, ghosts>>
  BY DEF SkipToken, TakeToken, CommandEnds, ReaderDies, clientVars
<1>2. CASE CommandEnds(k)
  <2>1. /\ UNCHANGED <<fifo, last>> /\ reader[k] = "run"
        /\ reader' = [reader EXCEPT ![k] = "idle"]
        /\ done' = [done EXCEPT ![k] = @ \cup {last[k]}]
    BY <1>2 DEF CommandEnds
  <2>2. \A j \in Shell : j # k => done'[j] = done[j] /\ reader'[j] = reader[j]
    BY <2>1 DEF TypeInv, BoxTypes
  <2>3. done'[k] = done[k] \cup {last[k]} /\ reader'[k] = "idle" /\ last[k] <= last[k]
    BY <2>1 DEF TypeInv, BoxTypes, SeqNo
  <2>4. ~Unborn(k)
    BY <2>1 DEF Unborn
  <2>5. DoneTaken'
    BY <2>1, <2>2, <2>3 DEF BirthInv, DoneTaken
  <2>6. Virgin' /\ NoFuture'
    BY <1>1, <2>1, <2>2, <2>4 DEF BirthInv, Virgin, Unborn, NoFuture
  <2> QED
    BY <2>5, <2>6 DEF BirthInv
<1>3. CASE ReaderDies(k)
  <2>1. UNCHANGED <<fifo, last, done>> /\ reader' = [reader EXCEPT ![k] = "dead"]
    BY <1>3 DEF ReaderDies
  <2>2. \A j \in Shell : reader'[j] = "run" => reader[j] = "run"
    BY <2>1 DEF TypeInv, BoxTypes
  <2> QED
    BY <1>1, <2>1, <2>2 DEF BirthInv, Virgin, Unborn, NoFuture, DoneTaken
<1>4. CASE SkipToken(k) \/ TakeToken(k)
  <2> DEFINE s == Head(fifo[k])
             rest == Tail(fifo[k])
  <2>0. /\ fifo' = [fifo EXCEPT ![k] = Tail(@)] /\ fifo[k] # <<>> /\ reader[k] = "idle"
        /\ fifo[k] \in Seq(SeqNo)
    BY <1>4 DEF SkipToken, TakeToken, TypeInv, BoxTypes
  <2>1. s \in SeqNo /\ fifo'[k] = rest /\ \A j \in Shell : j # k => fifo'[j] = fifo[j]
    BY <2>0 DEF TypeInv, BoxTypes
  <2>2. s = fifo[k][1] /\ 1 \in 1..Len(fifo[k])
    BY <2>0
  <2>3. \A i \in 1..Len(rest) : i + 1 \in 1..Len(fifo[k]) /\ rest[i] = fifo[k][i + 1]
    BY <2>0
  <2>4. ~Unborn(k)
    BY <2>0 DEF Unborn
  <2>5. k = shell => s <= seq /\ \A i \in 1..Len(rest) : rest[i] <= seq
    BY <2>2, <2>3 DEF BirthInv, NoFuture
  <2> HIDE DEF s, rest
  <2>6. CASE SkipToken(k)
    <3>1. UNCHANGED <<last, done, reader>>
      BY <2>6 DEF SkipToken
    <3>2. NoFuture'
      BY <1>1, <2>1, <2>5, <3>1, InTypes DEF BirthInv, NoFuture
    <3>3. Virgin'
      BY <1>1, <2>1, <2>4, <3>1 DEF BirthInv, Virgin, Unborn
    <3> QED
      BY <3>1, <3>2, <3>3 DEF BirthInv, DoneTaken
  <2>7. CASE TakeToken(k)
    <3>1. /\ last' = [last EXCEPT ![k] = s] /\ ~(s <= last[k])
          /\ \/ done' = [done EXCEPT ![k] = @ \cup {s}] /\ UNCHANGED reader
             \/ reader' = [reader EXCEPT ![k] = "run"] /\ UNCHANGED done
      BY <2>7 DEF TakeToken, Gated, s
    <3>2. /\ last'[k] = s /\ last[k] < s /\ last[k] \in {0} \cup SeqNo
          /\ \A j \in Shell : j # k => last'[j] = last[j]
      BY <2>1, <3>1 DEF TypeInv, BoxTypes, SeqNo
    <3>3. /\ done'[k] \subseteq done[k] \cup {s} /\ (reader'[k] = "run" => done'[k] = done[k])
          /\ \A j \in Shell : j # k => done'[j] = done[j] /\ reader'[j] = reader[j]
      BY <2>0, <3>1 DEF TypeInv, BoxTypes
    <3>4. done[k] \subseteq SeqNo
      BY DEF TypeInv, BoxTypes
    <3>5. NoFuture'
      BY <1>1, <2>1, <2>5, <3>2, InTypes DEF BirthInv, NoFuture
    <3>6. Virgin'
      BY <1>1, <2>1, <2>4, <3>2, <3>3 DEF BirthInv, Virgin, Unborn
    <3>7. DoneTaken'
      <4>1. \A r \in done[k] : r < s
        BY <2>1, <3>2, <3>4 DEF BirthInv, DoneTaken, SeqNo
      <4>2. \A r \in done'[k] : r <= s
        BY <2>1, <3>3, <3>4, <4>1 DEF SeqNo
      <4>3. reader'[k] = "run" => s \notin done'[k]
        BY <2>1, <3>3, <4>1 DEF SeqNo
      <4> QED
        BY <3>2, <3>3, <4>2, <4>3 DEF BirthInv, DoneTaken
    <3> QED
      BY <3>5, <3>6, <3>7 DEF BirthInv
  <2> QED
    BY <1>4, <2>6, <2>7
<1> QED
  BY <1>2, <1>3, <1>4

\* A step of a script: what it does to what the readers see.
LEMMA ApplyMoves ==
    ASSUME TypeInv, NEW k \in Shell, NEW s \in SeqNo, NEW step \in Step,
           NEW b \in {"whole", "torn"}, Apply(k, s, step, b)
    PROVE  /\ UNCHANGED <<last, reader, ran>>
           /\ \A j \in Shell : done'[j] \subseteq done[j]
           /\ \A j \in Shell : j # k => fifo'[j] = fifo[j] /\ body'[j] = body[j]
           /\ IF step = "push" THEN fifo'[k] = Append(fifo[k], s) ELSE fifo'[k] = fifo[k]
           /\ step = "rm" => \A r \in SeqNo : r # s - 1 => body'[k][r] = body[k][r]
           /\ step = "stage" => /\ body'[k][s] = b
                                /\ \A r \in SeqNo : r # s => body'[k][r] = body[k][r]
           /\ step = "push" => body' = body
<1>0. UNCHANGED <<last, reader, ran>>
  BY DEF Apply
<1>1. CASE step = "rm"
  <2>1. /\ body' = [body EXCEPT ![k] = [r \in SeqNo |-> IF r = s - 1 THEN "none" ELSE @[r]]]
        /\ done' = [done EXCEPT ![k] = @ \ {s - 1, s}] /\ fifo' = fifo
    BY <1>1 DEF Apply
  <2> QED
    BY <1>0, <1>1, <2>1 DEF TypeInv, BoxTypes
<1>2. CASE step = "stage"
  <2>1. body' = [body EXCEPT ![k][s] = b] /\ done' = done /\ fifo' = fifo
    BY <1>2 DEF Apply
  <2> QED
    BY <1>0, <1>2, <2>1 DEF TypeInv, BoxTypes
<1>3. CASE step = "push"
  <2>1. body' = body /\ done' = done /\ fifo' = [fifo EXCEPT ![k] = Append(@, s)]
    BY <1>3 DEF Apply
  <2> QED
    BY <1>0, <1>3, <2>1 DEF TypeInv, BoxTypes
<1> QED
  BY <1>1, <1>2, <1>3 DEF Step

\* A step of a script removes bodies or stages the one it has.
LEMMA ApplyTears ==
    ASSUME TypeInv, NEW k \in Shell, NEW s \in SeqNo, NEW step \in Step,
           NEW b \in {"whole", "torn"}, Apply(k, s, step, b)
    PROVE  /\ UNCHANGED ran
           /\ \A j \in Shell : \A r \in SeqNo :
                 \/ body'[j][r] \in {body[j][r], "none"}
                 \/ j = k /\ r = s /\ body'[j][r] = b
<1>0. UNCHANGED ran
  BY DEF Apply
<1>1. CASE step = "rm"
  <2>1. body' = [body EXCEPT ![k] = [r \in SeqNo |-> IF r = s - 1 THEN "none" ELSE @[r]]]
    BY <1>1 DEF Apply
  <2> QED
    BY <1>0, <2>1 DEF TypeInv, BoxTypes
<1>2. CASE step # "rm"
  <2>1. body' = body \/ body' = [body EXCEPT ![k][s] = b]
    BY <1>2 DEF Apply, Step
  <2> QED
    BY <1>0, <2>1 DEF TypeInv, BoxTypes
<1> QED
  BY <1>1, <1>2

\* The step of a ghost, spelled out.
LEMMA GhostMoves ==
    ASSUME TypeInv, GhostStep
    PROVE  \E g \in ghosts :
              /\ g \in Ghost /\ Head(g.todo) \in Step
              /\ Apply(g.shell, g.seq, Head(g.todo), g.body)
              /\ \A h \in ghosts' : \/ h \in ghosts
                                    \/ /\ h.shell = g.shell /\ h.seq = g.seq
                                       /\ h.todo = Tail(g.todo) /\ h.body = g.body
<1>1. PICK g \in ghosts :
        /\ Apply(g.shell, g.seq, Head(g.todo), g.body)
        /\ ghosts' = (ghosts \ {g}) \cup
             {h \in {[g EXCEPT !.todo = Tail(@)]} : h.todo # <<>>}
  BY DEF GhostStep
<1>2. g \in Ghost
  BY DEF TypeInv
<1>3. Head(g.todo) \in Step
  BY <1>2, TodoSteps DEF Ghost, Step
<1> DEFINE n == [g EXCEPT !.todo = Tail(@)]
<1>4. n.shell = g.shell /\ n.seq = g.seq /\ n.todo = Tail(g.todo) /\ n.body = g.body
  BY <1>2 DEF Ghost
<1>5. ghosts' \subseteq ghosts \cup {n}
  BY <1>1
<1> HIDE DEF n
<1> QED
  BY <1>1, <1>2, <1>3, <1>4, <1>5

\* The ghost a dropped script leaves behind.
LEMMA NewGhostIs ==
    ASSUME NEW s, NEW todo, NEW new \in Ghosts(s, todo), NEW g \in new
    PROVE  /\ g.shell = shell /\ g.seq = s /\ g.todo = todo /\ todo # <<>>
           /\ g.body = "torn" => Stages(todo)
<1>1. todo # <<>>
  BY DEF Ghosts
<1>2. \E b : /\ g = [shell |-> shell, seq |-> s, todo |-> todo, body |-> b]
             /\ b = "torn" => Stages(todo)
  BY <1>1 DEF Ghosts
<1> QED
  BY <1>1, <1>2

LEMMA NextBirths ==
    ASSUME TypeInv, BirthInv, [Next]_vars
    PROVE  BirthInv'
<1>0. TypeInv' /\ shell \in Shell /\ seq \in Nat /\ seq >= seq
  BY NextTypes, InTypes DEF TypeInv, ClientTypes
<1>1. CASE Container \/ \E k \in Shell : ReaderDies(k)
  BY <1>1, ReaderBirths DEF Container
<1>2. CASE GhostStep
  <2>1. PICK g \in ghosts :
              /\ g \in Ghost /\ Head(g.todo) \in Step
              /\ Apply(g.shell, g.seq, Head(g.todo), g.body)
              /\ \A h \in ghosts' : \/ h \in ghosts
                                    \/ /\ h.shell = g.shell /\ h.seq = g.seq
                                       /\ h.todo = Tail(g.todo)
    BY <1>2, GhostMoves
  <2>2. g.shell \in Shell /\ g.seq \in SeqNo /\ Given(g.shell, g.seq)
        /\ g.body \in {"whole", "torn"}
    BY <2>1, GhostsGiven DEF Ghost
  <2>3. UNCHANGED <<shell, seq>>
    BY <1>2 DEF GhostStep, clientVars
  <2>4. /\ UNCHANGED <<last, reader>>
        /\ \A j \in Shell : done'[j] \subseteq done[j]
        /\ \A j \in Shell : \/ fifo'[j] = fifo[j]
                            \/ j = g.shell /\ fifo'[j] = Append(fifo[j], g.seq)
    BY <2>1, <2>2, ApplyMoves
  <2>5. \A h \in ghosts' : h \in ghosts \/ Given(h.shell, h.seq)
    BY <2>1, <2>2
  <2> QED
    BY <1>0, <2>2, <2>3, <2>4, <2>5, CalmBirths
<1>3. CASE ScriptStep \/ Restage \/ Repush
  <2>1. pending = seq /\ seq \in SeqNo /\ Given(shell, seq)
    <3>1. pending = seq /\ seq > 0 /\ seq \in SeqNo
      BY <1>3, InTypes DEF ScriptStep, Restage, Repush, TypeInv, Places, InSetup, Asked
    <3> QED
      BY <1>0, <3>1 DEF Given, Shell
  <2>2. \E step \in Step : Apply(shell, seq, step, "whole")
    <3>1. ASSUME ScriptStep PROVE Head(script) \in Step
      <4>1. script \in Todos
        BY <3>1 DEF ScriptStep, TypeInv, ClientTypes, Scripts, Todos
      <4> QED
        BY <4>1, TodoSteps DEF Step
    <3> QED
      BY <1>3, <2>1, <3>1 DEF ScriptStep, Restage, Repush, Step
  <2>3. /\ UNCHANGED <<last, reader>>
        /\ \A j \in Shell : done'[j] \subseteq done[j]
        /\ \A j \in Shell : \/ fifo'[j] = fifo[j]
                            \/ j = shell /\ fifo'[j] = Append(fifo[j], seq)
    BY <1>0, <2>1, <2>2, ApplyMoves
  <2>4. UNCHANGED <<shell, seq, ghosts>>
    BY <1>3 DEF ScriptStep, Restage, Repush
  <2> QED
    BY <1>0, <2>1, <2>3, <2>4, CalmBirths
<1>4. CASE ExecDrops \/ RecoveryDrops
  <2>1. pending = seq /\ seq > 0 /\ UNCHANGED <<boxVars, shell, seq>>
    BY <1>4 DEF ExecDrops, RecoveryDrops, TypeInv, Places, InSetup, Asked
  <2>2. \A g \in ghosts' : g \in ghosts \/ (g.shell = shell /\ g.seq = seq)
    BY <1>4, <2>1, NewGhostIs DEF ExecDrops, RecoveryDrops
  <2>3. \A g \in ghosts' : g \in ghosts \/ Given(g.shell, g.seq)
    BY <1>0, <2>1, <2>2 DEF Given, Shell
  <2> QED
    BY <1>0, <2>1, <2>3, CalmBirths DEF boxVars
<1>5. CASE MakeDir
  <2>1. /\ shell' = shell + 1 /\ seq' = 0
        /\ UNCHANGED <<reader, fifo, last, done, ghosts>>
    BY <1>5 DEF MakeDir
  <2>2. shell + 1 \in Shell /\ shell + 1 > shell
    <3>1. shell \in Nat \ {0} /\ shell <= cmd
      BY <1>5 DEF MakeDir, TypeInv, ClientTypes, Counted
    <3> QED
      BY <3>1, InTypes DEF Shell
  <2>3. Unborn(shell + 1)
    BY <2>2 DEF BirthInv, Virgin
  <2>4. Virgin'
    <3>1. \A k \in Shell : k > shell + 1 \/ k = shell + 1 => Unborn(k)
      BY <1>0, <2>3 DEF BirthInv, Virgin, Shell
    <3> QED
      BY <2>1, <3>1 DEF Virgin, Unborn
  <2>5. NoFuture'
    BY <2>1, <2>3 DEF NoFuture, Unborn
  <2> QED
    BY <2>1, <2>4, <2>5 DEF BirthInv, DoneTaken
<1>6. CASE Teardown \/ Recovered
  <2>1. UNCHANGED <<last, shell, seq, ghosts>>
    BY <1>6 DEF Teardown, Recovered, Killed, boxVars
  <2>2. /\ \A k \in Shell : done'[k] \subseteq done[k]
        /\ \A k \in Shell : reader'[k] = "run" => reader[k] = "run"
        /\ \A k \in Shell : fifo'[k] = fifo[k] \/ fifo'[k] = <<>>
    BY <1>6 DEF Teardown, Recovered, Killed, boxVars, TypeInv, BoxTypes
  <2> QED
    BY <1>0, <2>1, <2>2, CalmBirths
<1>7. CASE Spawn
  <2>1. UNCHANGED <<last, shell, seq, ghosts, fifo, done>>
    BY <1>7 DEF Spawn
  <2>2. \A k \in Shell : reader'[k] = "run" => reader[k] = "run"
    BY <1>7 DEF Spawn, TypeInv, BoxTypes
  <2> QED
    BY <1>0, <2>1, <2>2, CalmBirths
<1>8. CASE RunBash \/ RunPreamble
  <2>1. UNCHANGED <<boxVars, shell, ghosts>> /\ seq' >= seq
    BY <1>0, <1>8 DEF RunBash, RunPreamble, Send, TypeInv, Places
  <2> QED
    BY <1>0, <2>1, CalmBirths DEF boxVars
<1>9. CASE \/ Reply \/ TimeOut \/ GraderGoesOn \/ GraderRetries \/ Reattach \/ GiveUp
           \/ FoundAlive \/ FoundDead \/ ProbeBody \/ ProbeStarted \/ RepushFails
           \/ ExecFails \/ NotUp \/ SetupDone \/ Submit \/ UNCHANGED vars
  <2>1. UNCHANGED <<boxVars, shell, seq, ghosts>>
    BY <1>9 DEF Reply, TimeOut, GraderGoesOn, GraderRetries, Reattach, GiveUp,
       FoundAlive, FoundDead, ProbeBody, ProbeStarted, RepushFails, ExecFails, NotUp,
       SetupDone, Submit, vars, clientVars
  <2> QED
    BY <1>0, <2>1, CalmBirths DEF boxVars
<1> QED
  BY <1>1, <1>2, <1>3, <1>4, <1>5, <1>6, <1>7, <1>8, <1>9
  DEF Next, Worker, Setup, Recovery

LEMMA InitBirths == Init => BirthInv
<1> SUFFICES ASSUME Init PROVE BirthInv
  OBVIOUS
<1>1. \A k \in Shell : k > 1 => Unborn(k)
  BY DEF Init, Unborn
<1>2. NoFuture /\ DoneTaken
  BY DEF Init, NoFuture, DoneTaken, Shell
<1> QED
  BY <1>1, <1>2 DEF Init, BirthInv, Virgin, Shell

\* The token of the pending number is somewhere behind its body: queued, with
\* a ghost, or about to be pushed again.
Poised ==
    \/ \E i \in 1..Len(fifo[shell]) : fifo[shell][i] = seq
    \/ last[shell] = seq
    \/ \E g \in ghosts : g.shell = shell /\ g.seq = seq /\ g.todo = <<"push">>
    \/ wpc = "exec" /\ script \in {<<>>, <<"push">>}
    \/ wpc \in {"marked", "repush", "wait"}

\* Before the token of the pending number is pushed its body is staged, so
\* that what the reader takes is run.
Sourced ==
    pending = seq /\ seq > 0 =>
        /\ Poised => body[shell][seq] # "none"
        /\ last[shell] = seq => ran[shell][seq] # "no"

\* The command being worked on is the one the client's numbers name.
Current == Asked => sent[cmd].shell = shell /\ sent[cmd].seq = seq

\* Number s of shell k was taken, with its body, and is over.
Over(k, s) ==
    /\ ran[k][s] # "no" /\ s <= last[k]
    /\ ~(reader[k] = "run" /\ last[k] = s)

Answered == \A c \in 1..cmd : answer[c] = "done" => Over(sent[c].shell, sent[c].seq)

AnswerInv == Sourced /\ Current /\ Answered

LEMMA SentTypes ==
    ASSUME TypeInv, NEW c \in 1..cmd
    PROVE  sent[c].shell \in Shell /\ sent[c].seq \in SeqNo /\ sent[c].phase \in Phase
<1>1. sent[c] \in Sent
  BY DEF TypeInv, CallTypes
<1> QED
  BY <1>1 DEF Sent

\* Nothing is pending any more, or nothing was given a number yet.
LEMMA NothingPending == seq' = 0 \/ pending' # seq' => Sourced'
BY DEF Sourced

\* The container stands still and the client moves within one number.
LEMMA QuietSource ==
    ASSUME TypeInv, Sourced, UNCHANGED <<boxVars, shell, seq, pending>>,
           \A g \in ghosts' :
              g \in ghosts \/ g.todo # <<"push">> \/ Poised,
           wpc' = "exec" /\ script' \in {<<>>, <<"push">>} =>
              wpc = "exec" /\ script = script',
           wpc' \in {"marked", "repush", "wait"} =>
              wpc \in {"marked", "repush", "wait"} \/ (pending = seq => body[shell][seq] # "none")
    PROVE  Sourced'
BY DEF Sourced, Poised, boxVars

\* An answer other than completion, or none.
LEMMA AnswersStay ==
    ASSUME TypeInv, Answered, UNCHANGED cmd, UNCHANGED sent \/ SameCalls,
           UNCHANGED answer \/ \E x \in {"timeout", "lost"} : Told(x),
           UNCHANGED <<ran, last>>,
           \A k \in Shell : reader'[k] = "run" => reader[k] = "run"
    PROVE  Answered'
<1> SUFFICES ASSUME NEW c \in 1..cmd, answer'[c] = "done"
             PROVE  Over(sent[c].shell, sent[c].seq)'
  BY DEF Answered
<1>1. answer[c] = "done"
  BY SMTT(30) DEF Told, TypeInv, CallTypes
<1>2. sent'[c].shell = sent[c].shell /\ sent'[c].seq = sent[c].seq
  BY DEF SameCalls
<1> QED
  BY <1>1, <1>2, SentTypes DEF Answered, Over

\* The current command is reported as completed.
LEMMA AnsweredDone ==
    ASSUME TypeInv, BirthInv, AnswerInv, Asked, pending \in done[shell],
           UNCHANGED <<cmd, sent, ran, last, reader>>, Told("done")
    PROVE  Answered'
<1> SUFFICES ASSUME NEW c \in 1..cmd, answer'[c] = "done"
             PROVE  Over(sent[c].shell, sent[c].seq)
  BY DEF Answered, Over
<1>1. CASE answer[c] = "done"
  BY <1>1 DEF AnswerInv, Answered
<1>2. CASE answer[c] # "done"
  <2>1. c = cmd
    BY <1>2 DEF Told, TypeInv, CallTypes
  <2>2. /\ sent[c].shell = shell /\ sent[c].seq = seq /\ pending = seq /\ seq \in SeqNo
        /\ shell \in Shell
    BY <2>1, InTypes DEF AnswerInv, Current, TypeInv, Places
  <2>3. seq <= last[shell] /\ (reader[shell] = "run" => last[shell] # seq)
    BY <2>2 DEF BirthInv, DoneTaken
  <2>4. last[shell] = seq
    <3>1. last[shell] <= seq /\ last[shell] \in {0} \cup SeqNo
      BY <2>2 DEF BirthInv, NoFuture, TypeInv, BoxTypes
    <3> QED
      BY <2>2, <2>3, <3>1 DEF SeqNo
  <2>5. ran[shell][seq] # "no"
    BY <2>2, <2>4 DEF AnswerInv, Sourced, SeqNo
  <2> QED
    BY <2>2, <2>3, <2>4, <2>5 DEF Over, SeqNo
<1> QED
  BY <1>1, <1>2

\* The reader takes the pending number only with its body.
LEMMA ReaderAnswers ==
    ASSUME TypeInv, BirthInv, AnswerInv, NEW k \in Shell,
           SkipToken(k) \/ TakeToken(k) \/ CommandEnds(k) \/ ReaderDies(k)
    PROVE  AnswerInv'
<1>1. UNCHANGED <<shell, seq, pending, ghosts, wpc, script, setupFor, cmd, sent, answer, body>>
  BY DEF SkipToken, TakeToken, CommandEnds, ReaderDies, clientVars, callVars
<1>2. Current'
  BY <1>1 DEF AnswerInv, Current, Asked
<1>3. CASE CommandEnds(k) \/ ReaderDies(k)
  <2>1. UNCHANGED <<last, ran, fifo>>
    BY <1>3 DEF CommandEnds, ReaderDies
  <2>2. \A j \in Shell : reader'[j] = "run" => reader[j] = "run"
    BY <1>3 DEF CommandEnds, ReaderDies, TypeInv, BoxTypes
  <2>3. Answered'
    BY <1>1, <2>1, <2>2, AnswersStay DEF AnswerInv
  <2>4. Sourced'
    BY <1>1, <2>1 DEF AnswerInv, Sourced, Poised
  <2> QED
    BY <1>2, <2>3, <2>4 DEF AnswerInv
<1>4. CASE SkipToken(k) \/ TakeToken(k)
  <2> DEFINE s == Head(fifo[k])
             rest == Tail(fifo[k])
  <2>0. /\ fifo' = [fifo EXCEPT ![k] = Tail(@)] /\ fifo[k] # <<>>
        /\ fifo[k] \in Seq(SeqNo)
    BY <1>4 DEF SkipToken, TakeToken, TypeInv, BoxTypes
  <2>1. s \in SeqNo /\ fifo'[k] = rest /\ \A j \in Shell : j # k => fifo'[j] = fifo[j]
    BY <2>0 DEF TypeInv, BoxTypes
  <2>2. s = fifo[k][1] /\ 1 \in 1..Len(fifo[k])
    BY <2>0
  <2>3. \A i \in 1..Len(rest) : i + 1 \in 1..Len(fifo[k]) /\ rest[i] = fifo[k][i + 1]
    BY <2>0
  <2>4. k = shell /\ s = seq => Poised
    BY <2>2 DEF Poised
  <2>5. k = shell /\ (\E i \in 1..Len(rest) : rest[i] = seq) => Poised
    BY <2>3 DEF Poised
  <2> HIDE DEF s, rest
  <2>6. CASE SkipToken(k)
    <3>1. UNCHANGED <<last, ran, reader>>
      BY <2>6 DEF SkipToken
    <3>2. Poised' => Poised
      BY <1>1, <2>1, <2>5, <3>1, InTypes DEF Poised
    <3>3. Sourced'
      BY <1>1, <3>1, <3>2 DEF AnswerInv, Sourced
    <3> QED
      BY <1>1, <1>2, <3>1, <3>3, AnswersStay DEF AnswerInv
  <2>7. CASE TakeToken(k)
    <3>1. /\ last' = [last EXCEPT ![k] = s] /\ ~(s <= last[k])
          /\ \/ body[k][s] = "none" /\ UNCHANGED <<reader, ran>> /\ reader[k] = "idle"
             \/ /\ body[k][s] # "none"
                /\ reader' = [reader EXCEPT ![k] = "run"]
                /\ ran' = [ran EXCEPT ![k][s] = body[k][s]]
      BY <2>7 DEF TakeToken, Gated, s
    <3>2. /\ last'[k] = s /\ last[k] < s /\ last[k] \in {0} \cup SeqNo
          /\ \A j \in Shell : j # k => last'[j] = last[j]
      BY <2>1, <3>1 DEF TypeInv, BoxTypes, SeqNo
    <3>3. /\ \A j \in Shell : \A r \in SeqNo :
                ~(j = k /\ r = s) => ran'[j][r] = ran[j][r]
          /\ body[k][s] # "none" => ran'[k][s] # "no"
          /\ ran[k][s] # "no" => ran'[k][s] # "no"
          /\ \A j \in Shell : j # k => reader'[j] = reader[j]
      <4>1. body[k][s] # "none" => body[k][s] # "no"
        BY <2>1 DEF TypeInv, BoxTypes
      <4> DEFINE b == body[k][s]
      <4> HIDE DEF b
      <4> QED
        BY <2>1, <3>1, <4>1 DEF TypeInv, BoxTypes, b
    <3>4. Poised' => Poised
      <4>1. CASE k = shell
        BY <1>1, <2>1, <2>4, <2>5, <3>2, <4>1 DEF Poised
      <4>2. CASE k # shell
        BY <1>1, <2>1, <3>2, <4>2, InTypes DEF Poised
      <4> QED
        BY <4>1, <4>2
    <3>5. Sourced'
      <4> SUFFICES ASSUME pending = seq, seq > 0
                   PROVE  /\ Poised' => body[shell][seq] # "none"
                          /\ last'[shell] = seq => ran'[shell][seq] # "no"
        BY <1>1 DEF Sourced
      <4>1. Poised' => body[shell][seq] # "none"
        BY <3>4 DEF AnswerInv, Sourced
      <4>2. ASSUME last'[shell] = seq PROVE ran'[shell][seq] # "no"
        <5>1. CASE k = shell
          <6>1. s = seq
            BY <3>2, <4>2, <5>1
          <6>2. body[shell][seq] # "none"
            BY <2>4, <5>1, <6>1 DEF AnswerInv, Sourced
          <6> QED
            BY <3>3, <5>1, <6>1, <6>2
        <5>2. CASE k # shell
          <6>1. seq \in SeqNo /\ shell \in Shell
            BY InTypes
          <6> QED
            BY <3>2, <3>3, <4>2, <5>2, <6>1 DEF AnswerInv, Sourced
        <5> QED
          BY <5>1, <5>2
      <4> QED
        BY <4>1, <4>2
    <3>6. Answered'
      <4>1. ASSUME NEW j \in Shell, NEW r \in SeqNo, Over(j, r)
            PROVE  Over(j, r)'
        <5>1. CASE j = k
          <6>1. r < s /\ r <= s
            BY <2>1, <3>2, <4>1, <5>1 DEF Over, SeqNo
          <6> QED
            BY <2>1, <3>2, <3>3, <4>1, <5>1, <6>1 DEF Over, SeqNo
        <5>2. CASE j # k
          BY <3>2, <3>3, <4>1, <5>2 DEF Over
        <5> QED
          BY <5>1, <5>2
      <4> QED
        BY <1>1, <4>1, SentTypes DEF AnswerInv, Answered
    <3> QED
      BY <1>2, <3>5, <3>6 DEF AnswerInv
  <2> QED
    BY <1>4, <2>6, <2>7
<1> QED
  BY <1>3, <1>4

\* The worker works on, or ends, the command it is at.
LEMMA CurrentStays ==
    ASSUME TypeInv, Current, UNCHANGED cmd, UNCHANGED sent \/ SameCalls,
           Asked' => Asked /\ UNCHANGED <<shell, seq>>
    PROVE  Current'
<1>1. Asked => cmd \in 1..cmd
  BY DEF TypeInv, CallTypes, Counted, Asked
<1> QED
  BY <1>1 DEF Current, SameCalls

LEMMA ScriptsDiffer ==
    /\ <<>> # <<"push">> /\ <<"stage", "push">> # <<>>
    /\ <<"stage", "push">> # <<"push">>
<1>1. Len(<<"stage", "push">>) = 2 /\ Len(<<"push">>) = 1 /\ Len(<<>>) = 0
  OBVIOUS
<1> QED
  BY <1>1

\* A ghost stages before it pushes, and removes only files of earlier numbers.
LEMMA GhostAnswers ==
    ASSUME TypeInv, BirthInv, AnswerInv, GhostStep
    PROVE  AnswerInv'
<1>1. PICK g \in ghosts :
              /\ g \in Ghost /\ Head(g.todo) \in Step
              /\ Apply(g.shell, g.seq, Head(g.todo), g.body)
              /\ \A h \in ghosts' : \/ h \in ghosts
                                    \/ /\ h.shell = g.shell /\ h.seq = g.seq
                                       /\ h.todo = Tail(g.todo)
  BY GhostMoves
<1>2. /\ g.shell \in Shell /\ g.seq \in SeqNo /\ Given(g.shell, g.seq)
      /\ g.body \in {"whole", "torn"} /\ g.todo \in Todos
  BY <1>1, GhostsGiven DEF Ghost
<1>3. UNCHANGED <<shell, seq, pending, wpc, script, setupFor, cmd, sent, answer>>
  BY DEF GhostStep, clientVars, callVars
<1> DEFINE step == Head(g.todo)
<1>4. /\ UNCHANGED <<last, reader, ran>>
      /\ \A j \in Shell : j # g.shell => fifo'[j] = fifo[j] /\ body'[j] = body[j]
      /\ IF step = "push" THEN fifo'[g.shell] = Append(fifo[g.shell], g.seq)
                          ELSE fifo'[g.shell] = fifo[g.shell]
      /\ step = "rm" => \A r \in SeqNo : r # g.seq - 1 => body'[g.shell][r] = body[g.shell][r]
      /\ step = "stage" => /\ body'[g.shell][g.seq] = g.body
                           /\ \A r \in SeqNo : r # g.seq =>
                                 body'[g.shell][r] = body[g.shell][r]
      /\ step = "push" => body' = body
  BY <1>1, <1>2, ApplyMoves
<1>5. /\ step \in {"rm", "stage", "push"}
      /\ step = "push" => g.todo = <<"push">>
      /\ Tail(g.todo) = <<"push">> => step = "stage"
  BY <1>2, TodoSteps, ScriptsDiffer
<1> HIDE DEF step
<1>6. Current' /\ Answered'
  BY <1>3, <1>4, AnswersStay, CurrentStays DEF AnswerInv, Asked
<1>7. Sourced'
  <2> SUFFICES ASSUME pending = seq, seq > 0
               PROVE  Poised' => body'[shell][seq] # "none"
    BY <1>3, <1>4 DEF AnswerInv, Sourced
  <2>0. seq \in SeqNo /\ shell \in Shell
    BY InTypes
  <2>1. CASE g.shell = shell /\ g.seq = seq /\ step = "stage"
    BY <1>2, <1>4, <2>1
  <2>2. CASE ~(g.shell = shell /\ g.seq = seq /\ step = "stage")
    <3>1. body'[shell][seq] = body[shell][seq]
      <4>1. CASE g.shell = shell /\ step = "rm"
        <5>1. g.seq <= seq
          BY <1>2, <4>1 DEF Given
        <5>2. seq # g.seq - 1
          BY <1>2, <2>0, <5>1 DEF SeqNo
        <5> QED
          BY <1>4, <2>0, <4>1, <5>2
      <4>2. CASE g.shell # shell \/ step # "rm"
        BY <1>4, <1>5, <2>0, <2>2, <4>2
      <4> QED
        BY <4>1, <4>2
    <3>2. Poised' => Poised
      <4> SUFFICES ASSUME Poised' PROVE Poised
        OBVIOUS
      <4>1. CASE \E n \in 1..Len(fifo'[shell]) : fifo'[shell][n] = seq
        <5>1. PICK n \in 1..Len(fifo'[shell]) : fifo'[shell][n] = seq
          BY <4>1
        <5>2. CASE fifo'[shell] = fifo[shell]
          BY <5>1, <5>2 DEF Poised
        <5>3. CASE g.shell = shell /\ step = "push" /\ fifo'[shell] = Append(fifo[shell], g.seq)
          <6>1. fifo[shell] \in Seq(SeqNo)
            BY <2>0 DEF TypeInv, BoxTypes
          <6>2. (n \in 1..Len(fifo[shell]) /\ fifo[shell][n] = seq) \/ g.seq = seq
            BY <1>2, <5>1, <5>3, <6>1
          <6> QED
            BY <1>1, <1>5, <5>3, <6>2 DEF Poised
        <5> QED
          BY <1>4, <2>0, <5>2, <5>3
      <4>2. CASE \E h \in ghosts' : h.shell = shell /\ h.seq = seq /\ h.todo = <<"push">>
        BY <1>1, <1>5, <2>2, <4>2 DEF Poised
      <4> QED
        BY <1>3, <1>4, <4>1, <4>2 DEF Poised
    <3> QED
      BY <3>1, <3>2 DEF AnswerInv, Sourced
  <2> QED
    BY <2>1, <2>2
<1> QED
  BY <1>6, <1>7 DEF AnswerInv

\* The client's own scripts.
LEMMA ScriptAnswers ==
    ASSUME TypeInv, BirthInv, AnswerInv, ScriptStep \/ Restage \/ Repush
    PROVE  AnswerInv'
<1>0. /\ pending = seq /\ seq \in SeqNo /\ shell \in Shell
      /\ UNCHANGED <<shell, seq, pending, ghosts, setupFor, cmd, sent, answer>>
  BY InTypes DEF ScriptStep, Restage, Repush, TypeInv, Places, InSetup, Asked, callVars
<1>1. \E step \in Step :
         /\ Apply(shell, seq, step, "whole")
         /\ step # "stage" => wpc' # "marked"
         /\ \/ step = "push" /\ Poised
            \/ step = "stage"
            \/ step = "rm" /\ wpc' = "exec" /\ script' = <<"stage", "push">>
  <2>1. CASE ScriptStep
    <3>1. script \in Todos
      BY <2>1 DEF ScriptStep, TypeInv, ClientTypes, Scripts, Todos
    <3>2. /\ Head(script) \in Step /\ Head(script) = "push" => script = <<"push">>
          /\ Head(script) = "rm" => Tail(script) = <<"stage", "push">>
      BY <3>1, TodoSteps DEF Step
    <3> QED
      BY <2>1, <3>1, <3>2, TodoSteps DEF ScriptStep, Poised, Step
  <2>2. CASE Restage
    BY <1>0, <2>2 DEF Restage, Step
  <2>3. CASE Repush
    BY <1>0, <2>3 DEF Repush, Step, Poised
  <2> QED
    BY <2>1, <2>2, <2>3
<1>2. PICK step \in Step :
         /\ Apply(shell, seq, step, "whole")
         /\ \/ step = "push" /\ Poised
            \/ step = "stage"
            \/ step = "rm" /\ wpc' = "exec" /\ script' = <<"stage", "push">>
  BY <1>1
<1>3. /\ UNCHANGED <<last, reader, ran>>
      /\ step = "push" => body' = body
      /\ step # "push" => fifo'[shell] = fifo[shell]
      /\ step = "rm" => \A r \in SeqNo : r # seq - 1 => body'[shell][r] = body[shell][r]
      /\ step = "stage" => body'[shell][seq] = "whole"
  BY <1>0, <1>2, ApplyMoves
<1>4. Current' /\ Answered'
  <2>1. Asked' => Asked
    BY <1>0 DEF ScriptStep, Restage, Repush, Asked
  <2> QED
    BY <1>0, <1>3, <2>1, AnswersStay, CurrentStays DEF AnswerInv
<1>5. Sourced'
  <2> SUFFICES Poised' => body'[shell][seq] # "none"
    BY <1>0, <1>3 DEF AnswerInv, Sourced, SeqNo
  <2>1. CASE step = "push"
    BY <1>0, <1>2, <1>3, <2>1 DEF AnswerInv, Sourced, SeqNo
  <2>2. CASE step = "stage"
    BY <1>3, <2>2
  <2>3. CASE step = "rm"
    <3>1. body'[shell][seq] = body[shell][seq]
      BY <1>0, <1>3, <2>3 DEF SeqNo
    <3>2. script' # <<>> /\ script' # <<"push">> /\ wpc' = "exec"
      BY <1>2, <2>3, ScriptsDiffer
    <3>3. Poised' => Poised
      BY <1>0, <1>3, <2>3, <3>2 DEF Poised
    <3> QED
      BY <1>0, <3>1, <3>3 DEF AnswerInv, Sourced, SeqNo
  <2> QED
    BY <2>1, <2>2, <2>3 DEF Step
<1> QED
  BY <1>4, <1>5 DEF AnswerInv

\* What a broken pipe leads to, for the answers.
LEMMA BrokenAnswers ==
    ASSUME AfterBroken, ClientTypes
    PROVE  /\ UNCHANGED answer \/ \E x \in {"timeout", "lost"} : Told(x)
           /\ wpc' \in {"idle", "ended", "restart", "abandon"}
           /\ wpc' \in {"restart", "abandon"} => UNCHANGED setupFor /\ setupFor = "none"
BY DEF AfterBroken, ClientTypes

\* A connection lost, in a script or in the recovery.
LEMMA DropAnswers ==
    ASSUME TypeInv, BirthInv, AnswerInv, ExecDrops \/ ExecFails \/ RecoveryDrops
    PROVE  AnswerInv'
<1>1. /\ pending = seq /\ seq > 0 /\ UNCHANGED <<boxVars, shell, seq, pending, cmd>>
  BY DEF ExecDrops, ExecFails, RecoveryDrops, TypeInv, Places, InSetup, Asked, callVars
<1>7. SameCalls
  BY <1>1, CutCalls DEF ExecDrops, ExecFails, RecoveryDrops
<1>2. /\ UNCHANGED answer \/ \E x \in {"timeout", "lost"} : Told(x)
      /\ wpc' \notin {"exec", "marked", "repush", "wait"}
      /\ Asked' => Asked
  BY BrokenAnswers DEF ExecDrops, ExecFails, RecoveryDrops, callVars, TypeInv, Asked
<1>3. \A g \in ghosts' : g \in ghosts \/ g.todo # <<"push">> \/ Poised
  <2>1. CASE ExecDrops
    <3>1. \A g \in ghosts' : g \in ghosts \/ g.todo = script
      BY <2>1, NewGhostIs DEF ExecDrops
    <3> QED
      BY <2>1, <3>1 DEF ExecDrops, Poised
  <2>2. CASE ExecFails
    BY <2>2 DEF ExecFails
  <2>3. CASE RecoveryDrops
    <3> DEFINE todo == CASE wpc = "restage" -> <<"stage">>
                         [] wpc = "repush" -> <<"push">>
                         [] OTHER -> <<>>
    <3>1. PICK new \in Ghosts(pending, todo) : ghosts' = ghosts \cup new
      BY <2>3 DEF RecoveryDrops
    <3>2. todo = <<"push">> => wpc = "repush"
      OBVIOUS
    <3> HIDE DEF todo
    <3>3. \A g \in ghosts' : g \in ghosts \/ g.todo = todo
      BY <3>1, NewGhostIs
    <3> QED
      BY <3>2, <3>3 DEF Poised
  <2> QED
    BY <2>1, <2>2, <2>3
<1>4. Sourced'
  BY <1>1, <1>2, <1>3, QuietSource DEF AnswerInv
<1>5. Answered'
  BY <1>1, <1>2, <1>7, AnswersStay DEF AnswerInv, boxVars
<1>6. Current'
  BY <1>1, <1>2, <1>7, CurrentStays DEF AnswerInv
<1> QED
  BY <1>4, <1>5, <1>6 DEF AnswerInv

\* The steps of the recovery and of the callers that only look and decide.
LEMMA CallerAnswers ==
    ASSUME TypeInv, BirthInv, AnswerInv,
           \/ GraderGoesOn \/ GraderRetries \/ Reattach \/ GiveUp
           \/ FoundAlive \/ FoundDead \/ ProbeBody \/ ProbeStarted \/ RepushFails
    PROVE  AnswerInv'
<1>1. UNCHANGED <<boxVars, ghosts, shell, seq, pending, script, cmd, sent>>
  BY DEF GraderGoesOn, GraderRetries, Reattach, GiveUp, FoundAlive, FoundDead,
     ProbeBody, ProbeStarted, RepushFails, callVars
<1>2. UNCHANGED answer \/ \E x \in {"timeout", "lost"} : Told(x)
  BY DEF GraderGoesOn, GraderRetries, Reattach, GiveUp, FoundAlive, FoundDead,
     ProbeBody, ProbeStarted, RepushFails, callVars
<1>3. /\ wpc' # "exec" /\ (Asked' => Asked)
      /\ wpc' \in {"marked", "repush", "wait"} =>
            wpc \in {"marked", "repush", "wait"} \/ (pending = seq => body[shell][seq] # "none")
  BY DEF GraderGoesOn, GraderRetries, Reattach, GiveUp, FoundAlive, FoundDead,
     ProbeBody, IsStaged, ProbeStarted, RepushFails, Asked
<1>4. Sourced'
  BY <1>1, <1>3, QuietSource DEF AnswerInv
<1>5. Answered' /\ Current'
  BY <1>1, <1>2, <1>3, AnswersStay, CurrentStays DEF AnswerInv, boxVars
<1> QED
  BY <1>4, <1>5 DEF AnswerInv

\* A command completes, or times out, or its result is recovered.
LEMMA ReplyAnswers ==
    ASSUME TypeInv, BirthInv, AnswerInv, Reply \/ TimeOut \/ Recovered
    PROVE  AnswerInv'
<1>1. /\ Asked /\ ~Asked' /\ pending = seq /\ seq > 0 /\ pending' = 0
      /\ UNCHANGED <<seq, cmd, sent, ran, last, reader>>
  BY DEF Reply, TimeOut, Expired, Recovered, TypeInv, Places, InSetup, Asked, callVars, boxVars
<1>2. Sourced'
  BY <1>1, NothingPending
<1>3. Answered'
  <2>1. CASE Reply \/ Recovered
    BY <1>1, <2>1, AnsweredDone DEF Reply, Recovered
  <2>2. CASE TimeOut
    BY <1>1, <2>2, AnswersStay DEF TimeOut, callVars, AnswerInv
  <2> QED
    BY <2>1, <2>2
<1> QED
  BY <1>1, <1>2, <1>3, CurrentStays DEF AnswerInv

\* A new shell is set up: nothing is pending until its preamble is sent.
LEMMA SetupAnswers ==
    ASSUME TypeInv, BirthInv, AnswerInv, Setup
    PROVE  AnswerInv'
<1>0. UNCHANGED <<cmd, sent, ran, last>>
  BY DEF Setup, Teardown, MakeDir, Spawn, RunPreamble, NotUp, SetupDone, Killed,
     boxVars, callVars
<1>1. UNCHANGED answer \/ \E x \in {"timeout", "lost"} : Told(x)
  BY BrokenAnswers DEF Setup, Teardown, MakeDir, Spawn, RunPreamble, NotUp, SetupDone,
     callVars, TypeInv
<1>2. \A k \in Shell : reader'[k] = "run" => reader[k] = "run"
  BY DEF Setup, Teardown, MakeDir, Spawn, RunPreamble, NotUp, SetupDone, Killed,
     boxVars, TypeInv, BoxTypes
<1>3. Answered'
  BY <1>0, <1>1, <1>2, AnswersStay DEF AnswerInv
<1>4. setupFor # "none" /\ (Asked' => Asked)
  <2>1. setupFor # "none"
    BY DEF Setup, Teardown, MakeDir, Spawn, RunPreamble, NotUp, SetupDone, TypeInv,
       Places, InSetup
  <2>2. ~Asked'
    <3>1. CASE MakeDir \/ NotUp
      BY <2>1, <3>1, BrokenAnswers DEF MakeDir, NotUp, Asked, TypeInv
    <3>2. CASE Teardown \/ Spawn \/ RunPreamble \/ SetupDone
      BY <2>1, <3>2 DEF Teardown, Spawn, RunPreamble, Send, SetupDone, AfterRebuild, Asked
    <3> QED
      BY <3>1, <3>2 DEF Setup
  <2> QED
    BY <2>1, <2>2
<1>5. Current'
  BY <1>0, <1>4, CurrentStays DEF AnswerInv, Asked
<1>6. Sourced'
  <2>1. CASE Teardown
    BY <2>1, NothingPending DEF Teardown
  <2>2. CASE MakeDir
    BY <2>2, NothingPending DEF MakeDir
  <2>3. CASE Spawn \/ NotUp
    <3>1. seq' = 0
      BY <2>3 DEF Spawn, NotUp, TypeInv, Places
    <3> QED
      BY <3>1, NothingPending
  <2>4. CASE SetupDone
    <3>1. pending' = 0 /\ seq' = seq
      BY <2>4 DEF SetupDone
    <3> QED
      BY <3>1, NothingPending
  <2>5. CASE RunPreamble
    <3>1. /\ seq' = 1 /\ wpc' = "exec" /\ script' = <<"rm", "stage", "push">> /\ seq = 0
          /\ UNCHANGED <<boxVars, ghosts, shell>>
      BY <2>5 DEF RunPreamble, Send, TypeInv, Places
    <3>2. script' # <<>> /\ script' # <<"push">>
      BY <3>1
    <3>3. Unborn(shell)
      BY <3>1, InTypes DEF BirthInv, Virgin
    <3>4. ~Poised' /\ last'[shell'] # seq'
      BY <3>1, <3>2, <3>3 DEF Poised, Unborn, boxVars
    <3> QED
      BY <3>1, <3>4 DEF Sourced
  <2> QED
    BY <2>1, <2>2, <2>3, <2>4, <2>5 DEF Setup
<1> QED
  BY <1>3, <1>5, <1>6 DEF AnswerInv

\* A new command gets a number nothing in the container has seen.
LEMMA RunBashAnswers ==
    ASSUME TypeInv, BirthInv, AnswerInv, RunBash
    PROVE  AnswerInv'
<1>1. /\ cmd' = cmd + 1 /\ seq' = seq + 1 /\ pending' = seq + 1
      /\ script' = <<"rm", "stage", "push">> /\ wpc' = "exec"
      /\ UNCHANGED <<boxVars, ghosts, setupFor, shell>>
      /\ sent' = Append(sent, [shell |-> shell, seq |-> seq + 1, phase |-> phase,
          cut |-> FALSE])
      /\ answer' = Append(answer, "none")
  BY DEF RunBash, Send
<1>2. seq \in Nat /\ cmd \in Nat /\ shell \in Shell /\ Len(sent) = cmd /\ Len(answer) = cmd
      /\ sent \in Seq(Sent) /\ answer \in Seq(Answer)
  BY InTypes DEF TypeInv, CallTypes, ClientTypes
<1>3. /\ sent'[cmd + 1] = [shell |-> shell, seq |-> seq + 1, phase |-> phase,
          cut |-> FALSE]
      /\ answer'[cmd + 1] = "none"
      /\ \A c \in 1..cmd : sent'[c] = sent[c] /\ answer'[c] = answer[c]
  BY <1>1, <1>2
<1>4. Current'
  <2>1. sent'[cmd'].shell = shell' /\ sent'[cmd'].seq = seq'
    <3> DEFINE r == [shell |-> shell, seq |-> seq + 1, phase |-> phase,
          cut |-> FALSE]
    <3>1. sent'[cmd'] = r /\ r.shell = shell /\ r.seq = seq + 1
      BY <1>1, <1>3
    <3> HIDE DEF r
    <3> QED
      BY <1>1, <3>1
  <2> QED
    BY <2>1 DEF Current
<1>5. Answered'
  BY <1>1, <1>2, <1>3 DEF AnswerInv, Answered, Over, boxVars
<1>6. Sourced'
  <2>1. script' # <<>> /\ script' # <<"push">>
    BY <1>1
  <2>2. last[shell] # seq + 1
    BY <1>2 DEF BirthInv, NoFuture
  <2>3. \A i \in 1..Len(fifo[shell]) : fifo[shell][i] # seq + 1
    BY <1>2 DEF BirthInv, NoFuture
  <2>4. \A g \in ghosts : g.shell = shell => g.seq # seq + 1
    BY <1>2 DEF BirthInv, NoFuture
  <2>5. ~Poised' /\ last'[shell'] # seq'
    BY <1>1, <2>1, <2>2, <2>3, <2>4 DEF Poised, boxVars
  <2> QED
    BY <2>5 DEF Sourced
<1> QED
  BY <1>4, <1>5, <1>6 DEF AnswerInv

LEMMA NextAnswers ==
    ASSUME TypeInv, BirthInv, AnswerInv, [Next]_vars
    PROVE  AnswerInv'
<1>1. CASE Submit \/ UNCHANGED vars
  <2>1. UNCHANGED <<boxVars, ghosts, cmd, sent, answer, clientVars>>
    BY <1>1 DEF Submit, vars, callVars
  <2> QED
    BY <2>1 DEF AnswerInv, Sourced, Poised, Current, Asked, Answered, Over, boxVars, clientVars
<1>2. CASE Container \/ \E k \in Shell : ReaderDies(k)
  BY <1>2, ReaderAnswers DEF Container
<1>3. CASE Worker
  BY <1>3, ScriptAnswers, DropAnswers, CallerAnswers, ReplyAnswers, SetupAnswers
  DEF Worker, Recovery
<1> QED
  BY <1>1, <1>2, <1>3, GhostAnswers, RunBashAnswers DEF Next

LEMMA InitAnswers == Init => AnswerInv
<1> SUFFICES ASSUME Init PROVE AnswerInv
  OBVIOUS
<1>1. Sourced
  BY DEF Init, Sourced
<1>2. Current /\ Answered
  BY DEF Init, Current, Answered, Asked
<1> QED
  BY <1>1, <1>2 DEF AnswerInv

\* Half a body, wherever it is: staged, with a ghost, or run.
Torn(k, s) ==
    \/ body[k][s] = "torn" \/ ran[k][s] = "torn"
    \/ \E g \in ghosts : g.shell = k /\ g.seq = s /\ g.body = "torn"

\* Every command that has number s of shell k was cut while it was staged.
CutOf(k, s) ==
    \A c \in 1..cmd : sent[c].shell = k /\ sent[c].seq = s => sent[c].cut

TornCut ==
    \A k \in Shell : \A s \in SeqNo : Torn(k, s) => Given(k, s) /\ CutOf(k, s)

\* Commands have numbers that were given out, and no two have the same.
AllGiven == \A c \in 1..cmd : Given(sent[c].shell, sent[c].seq)

Own ==
    Asked \/ wpc = "exec" =>
        \A c \in 1..cmd : sent[c].shell = shell /\ sent[c].seq = seq =>
            c = cmd /\ setupFor = "none"

TornInv == TornCut /\ AllGiven /\ Own

\* Steps that tear nothing but, perhaps, the body of the command they cut.
LEMMA TornStays ==
    ASSUME TypeInv, TornInv, UNCHANGED cmd, UNCHANGED sent \/ SameCalls,
           \A k \in Shell : \A s \in SeqNo : Given(k, s) => Given(k, s)',
           \A k \in Shell : \A s \in SeqNo :
              Torn(k, s)' => Torn(k, s) \/ (Given(k, s) /\ CutOf(k, s)'),
           Asked' \/ wpc' = "exec" =>
              (Asked \/ wpc = "exec") /\ UNCHANGED <<shell, seq, setupFor>>
    PROVE  TornInv'
<1>1. \A c \in 1..cmd : /\ sent'[c].shell = sent[c].shell /\ sent'[c].seq = sent[c].seq
                        /\ sent[c].cut => sent'[c].cut
  BY DEF SameCalls
<1>2. \A k, s : CutOf(k, s) => CutOf(k, s)'
  BY <1>1 DEF CutOf
<1>3. TornCut'
  BY <1>2 DEF TornInv, TornCut
<1>4. AllGiven'
  <2>1. ASSUME NEW c \in 1..cmd PROVE Given(sent[c].shell, sent[c].seq)'
    <3>1. Given(sent[c].shell, sent[c].seq) /\ sent[c].shell \in Shell /\ sent[c].seq \in SeqNo
      BY <2>1, SentTypes DEF TornInv, AllGiven
    <3>2. sent'[c].shell = sent[c].shell /\ sent'[c].seq = sent[c].seq
      BY <1>1, <2>1
    <3> QED
      BY <3>1, <3>2 DEF Given
  <2> QED
    BY <2>1 DEF AllGiven
<1>5. Own'
  BY <1>1 DEF TornInv, Own
<1> QED
  BY <1>3, <1>4, <1>5 DEF TornInv

\* Numbers given out stay so.
LEMMA GivenStays ==
    ASSUME TypeInv, \/ shell' = shell /\ seq' >= seq /\ seq' \in Nat
                    \/ shell' = shell + 1,
           NEW k \in Shell, NEW s \in SeqNo, Given(k, s)
    PROVE  Given(k, s)'
BY InTypes DEF Given, TypeInv, ClientTypes, Shell, SeqNo

\* A reader runs what is staged.
LEMMA ReaderTorn ==
    ASSUME TypeInv, TornInv, NEW k \in Shell,
           SkipToken(k) \/ TakeToken(k) \/ CommandEnds(k) \/ ReaderDies(k)
    PROVE  TornInv'
<1>1. UNCHANGED <<shell, seq, ghosts, wpc, setupFor, cmd, sent, body>>
  BY DEF SkipToken, TakeToken, CommandEnds, ReaderDies, clientVars, callVars
<1>2. \A j \in Shell : \A s \in SeqNo : ran'[j][s] \in {ran[j][s], body[j][s]}
  <2>1. CASE SkipToken(k) \/ CommandEnds(k) \/ ReaderDies(k)
    BY <2>1 DEF SkipToken, CommandEnds, ReaderDies
  <2>2. CASE TakeToken(k)
    <3> DEFINE n == Head(fifo[k])
    <3>1. UNCHANGED ran \/ ran' = [ran EXCEPT ![k][n] = body[k][n]]
      BY <2>2 DEF TakeToken
    <3> DEFINE b == body[k][n]
    <3> HIDE DEF n, b
    <3>2. \A j \in Shell : \A s \in SeqNo :
             ran'[j][s] = ran[j][s] \/ (j = k /\ s = n /\ ran'[j][s] = b)
      BY <3>1 DEF TypeInv, BoxTypes, b
    <3> QED
      BY <3>2 DEF b
  <2> QED
    BY <2>1, <2>2
<1>3. \A j \in Shell : \A s \in SeqNo : Torn(j, s)' => Torn(j, s)
  BY <1>1, <1>2 DEF Torn
<1>4. \A j \in Shell : \A s \in SeqNo : Given(j, s) => Given(j, s)'
  BY <1>1 DEF Given
<1> QED
  BY <1>1, <1>3, <1>4, TornStays DEF Asked

\* A ghost stages what it has.
LEMMA GhostTorn ==
    ASSUME TypeInv, BirthInv, TornInv, GhostStep
    PROVE  TornInv'
<1>1. PICK g \in ghosts :
              /\ g \in Ghost /\ Head(g.todo) \in Step
              /\ Apply(g.shell, g.seq, Head(g.todo), g.body)
              /\ \A h \in ghosts' : \/ h \in ghosts
                                    \/ /\ h.shell = g.shell /\ h.seq = g.seq
                                       /\ h.todo = Tail(g.todo) /\ h.body = g.body
  BY GhostMoves
<1>2. g.shell \in Shell /\ g.seq \in SeqNo /\ g.body \in {"whole", "torn"}
  BY <1>1, GhostsGiven DEF Ghost
<1>3. UNCHANGED <<shell, seq, wpc, setupFor, cmd, sent, ran>>
  BY <1>1 DEF GhostStep, clientVars, callVars, Apply
<1>4. \A k \in Shell : \A s \in SeqNo :
         body'[k][s] \in {body[k][s], "none"} \/ (k = g.shell /\ s = g.seq /\ body'[k][s] = g.body)
  BY <1>1, <1>2, ApplyTears
<1>5. \A k \in Shell : \A s \in SeqNo : Torn(k, s)' => Torn(k, s)
  BY <1>1, <1>3, <1>4 DEF Torn
<1>6. \A j \in Shell : \A s \in SeqNo : Given(j, s) => Given(j, s)'
  BY <1>3 DEF Given
<1> QED
  BY <1>3, <1>5, <1>6, TornStays DEF Asked

\* The client stages whole bodies.
LEMMA ScriptTorn ==
    ASSUME TypeInv, TornInv, ScriptStep \/ Restage \/ Repush
    PROVE  TornInv'
<1>1. /\ pending = seq /\ seq \in SeqNo /\ shell \in Shell
      /\ UNCHANGED <<shell, seq, ghosts, setupFor, cmd, sent>>
      /\ Asked' \/ wpc' = "exec" => Asked \/ wpc = "exec"
  BY InTypes DEF ScriptStep, Restage, Repush, TypeInv, Places, InSetup, Asked, callVars
<1>2. PICK step \in Step : Apply(shell, seq, step, "whole")
  <2>1. ASSUME ScriptStep PROVE Head(script) \in Step
    <3>1. script \in Todos
      BY <2>1 DEF ScriptStep, TypeInv, ClientTypes, Scripts, Todos
    <3> QED
      BY <3>1, TodoSteps DEF Step
  <2> QED
    BY <1>1, <2>1 DEF ScriptStep, Restage, Repush, Step
<1>3. UNCHANGED ran /\ \A k \in Shell : \A s \in SeqNo :
         body'[k][s] \in {body[k][s], "none", "whole"}
  BY <1>1, <1>2, ApplyTears
<1>4. \A k \in Shell : \A s \in SeqNo : Torn(k, s)' => Torn(k, s)
  BY <1>1, <1>3 DEF Torn
<1>5. \A j \in Shell : \A s \in SeqNo : Given(j, s) => Given(j, s)'
  BY <1>1 DEF Given
<1> QED
  BY <1>1, <1>4, <1>5, TornStays

\* A body is torn only where the command is cut; a preamble is nobody's command.
LEMMA DropTorn ==
    ASSUME TypeInv, TornInv, ExecDrops \/ ExecFails \/ RecoveryDrops
    PROVE  TornInv'
<1>1. /\ pending = seq /\ seq > 0 /\ UNCHANGED <<boxVars, shell, seq, pending, cmd>>
      /\ wpc \notin {"idle", "ended"} /\ (Asked \/ wpc = "exec")
      /\ seq \in SeqNo /\ shell \in Shell
  BY InTypes DEF ExecDrops, ExecFails, RecoveryDrops, TypeInv, Places, InSetup, Asked, callVars
<1>2. SameCalls /\ \A todo : CutIfStaging(todo) /\ Stages(todo) => sent'[cmd].cut
  BY <1>1, CutCalls DEF ExecDrops, ExecFails, RecoveryDrops
<1>3. Given(shell, seq)
  BY <1>1 DEF Given, TypeInv, ClientTypes
<1>4. PICK todo :
         /\ \A g \in ghosts' : \/ g \in ghosts
                               \/ /\ g.shell = shell /\ g.seq = seq
                                  /\ g.body = "torn" => Stages(todo)
         /\ setupFor = "none" => CutIfStaging(todo) \/ ghosts' = ghosts
  <2>1. CASE ExecDrops
    <3>1. \A g \in ghosts' : \/ g \in ghosts
                             \/ /\ g.shell = shell /\ g.seq = seq
                                /\ g.body = "torn" => Stages(script)
      BY <2>1, NewGhostIs DEF ExecDrops
    <3> QED
      BY <2>1, <3>1 DEF ExecDrops
  <2>2. CASE ExecFails
    BY <2>2 DEF ExecFails
  <2>3. CASE RecoveryDrops
    <3> DEFINE left == CASE wpc = "restage" -> <<"stage">>
                         [] wpc = "repush" -> <<"push">>
                         [] OTHER -> <<>>
    <3>1. (\E new \in Ghosts(pending, left) : ghosts' = ghosts \cup new) /\ CutIfStaging(left)
      BY <2>3 DEF RecoveryDrops
    <3> HIDE DEF left
    <3>2. \A g \in ghosts' : \/ g \in ghosts
                             \/ /\ g.shell = shell /\ g.seq = seq
                                /\ g.body = "torn" => Stages(left)
      BY <1>1, <3>1, NewGhostIs
    <3> QED
      BY <3>1, <3>2
  <2> QED
    BY <2>1, <2>2, <2>3
<1>5. ASSUME NEW k \in Shell, NEW s \in SeqNo, Torn(k, s)', ~Torn(k, s)
      PROVE  Given(k, s) /\ CutOf(k, s)'
  <2>1. PICK g \in ghosts' : g.shell = k /\ g.seq = s /\ g.body = "torn" /\ g \notin ghosts
    BY <1>1, <1>5 DEF Torn, boxVars
  <2>2. /\ k = shell /\ s = seq
        /\ setupFor = "none" => sent'[cmd].cut
    BY <1>2, <1>4, <2>1
  <2>3. \A c \in 1..cmd : sent'[c].shell = shell /\ sent'[c].seq = seq => sent'[c].cut
    BY <1>1, <1>2, <2>2 DEF SameCalls, TornInv, Own
  <2> QED
    BY <1>1, <1>3, <2>2, <2>3 DEF CutOf
<1>6. Asked' \/ wpc' = "exec" => UNCHANGED setupFor
  BY BrokenAnswers DEF ExecDrops, ExecFails, RecoveryDrops, Asked, TypeInv
<1>7. \A j \in Shell : \A s \in SeqNo : Given(j, s) => Given(j, s)'
  BY <1>1 DEF Given
<1> QED
  BY <1>1, <1>2, <1>5, <1>6, <1>7, TornStays

\* The steps that stage nothing and work on no new number.
LEMMA CallerTorn ==
    ASSUME TypeInv, TornInv,
           \/ GraderGoesOn \/ GraderRetries \/ Reattach \/ GiveUp
           \/ FoundAlive \/ FoundDead \/ ProbeBody \/ ProbeStarted \/ RepushFails
           \/ Reply \/ TimeOut \/ Recovered \/ Submit \/ UNCHANGED vars
    PROVE  TornInv'
<1>1. /\ UNCHANGED <<ghosts, shell, seq, cmd, sent, ran>>
      /\ Asked' \/ wpc' = "exec" => (Asked \/ wpc = "exec") /\ UNCHANGED setupFor
  BY DEF GraderGoesOn, GraderRetries, Reattach, GiveUp, FoundAlive, FoundDead, ProbeBody,
     ProbeStarted, RepushFails, Reply, TimeOut, Expired, Recovered, Submit, vars, callVars,
     clientVars, boxVars, Asked
<1>2. \A k \in Shell : \A s \in SeqNo : body'[k][s] \in {body[k][s], "none"}
  <2>1. UNCHANGED body \/ body' = [body EXCEPT ![shell][pending] = "none"]
    BY DEF GraderGoesOn, GraderRetries, Reattach, GiveUp, FoundAlive, FoundDead, ProbeBody,
       ProbeStarted, RepushFails, Reply, TimeOut, Recovered, Submit, vars, boxVars
  <2> DEFINE row == [body[shell] EXCEPT ![pending] = "none"]
  <2>2. \A s \in SeqNo : row[s] \in {body[shell][s], "none"}
    BY InTypes DEF TypeInv, BoxTypes
  <2>3. UNCHANGED body \/ body' = [body EXCEPT ![shell] = row]
    BY <2>1
  <2> HIDE DEF row
  <2>4. \A k \in Shell : body'[k] = body[k] \/ (k = shell /\ body'[k] = row)
    BY <2>3 DEF TypeInv, BoxTypes
  <2> QED
    BY <2>2, <2>4
<1>3. \A k \in Shell : \A s \in SeqNo : Torn(k, s)' => Torn(k, s)
  BY <1>1, <1>2 DEF Torn
<1>4. \A j \in Shell : \A s \in SeqNo : Given(j, s) => Given(j, s)'
  BY <1>1 DEF Given
<1> QED
  BY <1>1, <1>3, <1>4, TornStays

\* A shell is torn down and another one set up; its first number is its own.
LEMMA SetupTorn ==
    ASSUME TypeInv, TornInv, Setup
    PROVE  TornInv'
<1>1. UNCHANGED <<ghosts, cmd, sent, ran>> /\ setupFor # "none"
  BY DEF Setup, Teardown, MakeDir, Spawn, RunPreamble, NotUp, SetupDone, Killed,
     boxVars, callVars, TypeInv, Places, InSetup
<1>2. \A k \in Shell : \A s \in SeqNo : body'[k][s] \in {body[k][s], "none"}
  <2>1. UNCHANGED body \/ body' = [body EXCEPT ![shell] = Blank("none")]
    BY DEF Setup, Teardown, MakeDir, Spawn, RunPreamble, NotUp, SetupDone, Killed, boxVars
  <2> DEFINE blank == Blank("none")
  <2>2. \A s \in SeqNo : blank[s] = "none"
    BY DEF Blank
  <2> HIDE DEF blank
  <2>3. \A k \in Shell : body'[k] = body[k] \/ body'[k] = blank
    BY <2>1 DEF TypeInv, BoxTypes, blank
  <2> QED
    BY <2>2, <2>3
<1>3. \A k \in Shell : \A s \in SeqNo : Torn(k, s)' => Torn(k, s)
  BY <1>1, <1>2 DEF Torn
<1>4. \/ shell' = shell /\ seq' >= seq /\ seq' \in Nat
      \/ shell' = shell + 1
  BY DEF Setup, Teardown, MakeDir, Spawn, RunPreamble, Send, NotUp, SetupDone, TypeInv,
     ClientTypes, Places
<1>5. \A j \in Shell : \A s \in SeqNo : Given(j, s) => Given(j, s)'
  BY <1>4, GivenStays
<1>6. CASE RunPreamble
  <2>1. /\ seq = 0 /\ seq' = 1 /\ UNCHANGED <<shell, setupFor>>
    BY <1>6 DEF RunPreamble, Send, TypeInv, Places
  <2>2. \A k, s : CutOf(k, s) => CutOf(k, s)'
    BY <1>1 DEF CutOf
  <2>3. TornCut'
    BY <1>3, <1>5, <2>2 DEF TornInv, TornCut
  <2>4. AllGiven'
    BY <1>1, <1>5, SentTypes DEF TornInv, AllGiven, Given
  <2>5. \A c \in 1..cmd : sent[c].shell # shell
    BY <2>1 DEF TornInv, AllGiven, Given
  <2> QED
    BY <1>1, <2>1, <2>3, <2>4, <2>5 DEF TornInv, Own
<1>7. CASE ~RunPreamble
  <2>1. ~Asked' /\ wpc' # "exec"
    <3>1. CASE MakeDir \/ NotUp
      BY <1>1, <3>1, BrokenAnswers DEF MakeDir, NotUp, Asked, TypeInv
    <3>2. CASE Teardown \/ Spawn \/ SetupDone
      BY <1>1, <3>2 DEF Teardown, Spawn, SetupDone, AfterRebuild, Asked
    <3> QED
      BY <1>7, <3>1, <3>2 DEF Setup
  <2> QED
    BY <1>1, <1>3, <1>5, <2>1, TornStays
<1> QED
  BY <1>6, <1>7

\* A new command gets a number no command has and nothing torn bears.
LEMMA RunBashTorn ==
    ASSUME TypeInv, TornInv, RunBash
    PROVE  TornInv'
<1>1. /\ cmd' = cmd + 1 /\ seq' = seq + 1 /\ setupFor = "none"
      /\ UNCHANGED <<boxVars, ghosts, setupFor, shell>>
      /\ sent' = Append(sent, [shell |-> shell, seq |-> seq + 1, phase |-> phase,
          cut |-> FALSE])
  BY DEF RunBash, Send, TypeInv, Places, InSetup
<1>2. /\ seq \in Nat /\ cmd \in Nat /\ shell \in Shell /\ Len(sent) = cmd
      /\ sent \in Seq(Sent) /\ shell \in Nat
  BY InTypes DEF TypeInv, CallTypes, ClientTypes
<1>3. /\ sent'[cmd + 1].shell = shell /\ sent'[cmd + 1].seq = seq + 1
      /\ \A c \in 1..cmd : sent'[c] = sent[c]
  <2> DEFINE r == [shell |-> shell, seq |-> seq + 1, phase |-> phase, cut |-> FALSE]
  <2>1. sent'[cmd + 1] = r /\ r.shell = shell /\ r.seq = seq + 1
    BY <1>1, <1>2
  <2> QED
    BY <1>1, <1>2, <2>1
<1>4. \A j \in Shell : \A s \in SeqNo : Given(j, s) => Given(j, s)'
  BY <1>1, <1>2, GivenStays
<1>5. \A c \in 1..(cmd + 1) : c \in 1..cmd \/ c = cmd + 1
  BY <1>2
<1>6. ~Given(shell, seq + 1)
  BY <1>2 DEF Given
<1>7. TornCut'
  <2> SUFFICES ASSUME NEW k \in Shell, NEW s \in SeqNo, Torn(k, s)'
               PROVE  Given(k, s)' /\ CutOf(k, s)'
    BY DEF TornCut
  <2>1. Torn(k, s)
    BY <1>1 DEF Torn, boxVars
  <2>2. Given(k, s) /\ CutOf(k, s)
    BY <2>1 DEF TornInv, TornCut
  <2>3. ~(k = shell /\ s = seq + 1)
    BY <1>6, <2>2
  <2> QED
    BY <1>1, <1>3, <1>4, <1>5, <2>2, <2>3 DEF CutOf
<1>8. AllGiven'
  <2>1. /\ sent'[cmd + 1].shell = shell' /\ shell' <= shell'
        /\ sent'[cmd + 1].seq <= seq' /\ seq' > 0
    BY <1>1, <1>2, <1>3
  <2>2. ASSUME NEW c \in 1..cmd PROVE Given(sent[c].shell, sent[c].seq)'
    <3>1. Given(sent[c].shell, sent[c].seq) /\ sent[c].shell \in Shell /\ sent[c].seq \in SeqNo
      BY SentTypes DEF TornInv, AllGiven
    <3> QED
      BY <1>3, <1>4, <3>1 DEF Given
  <2> QED
    <3>1. \A c \in 1..(cmd + 1) : Given(sent[c].shell, sent[c].seq)'
      <4> TAKE c \in 1..(cmd + 1)
      <4>1. CASE c \in 1..cmd
        BY <2>2, <4>1
      <4>2. CASE c = cmd + 1
        BY <1>1, <1>2, <2>1, <4>2 DEF Given
      <4> QED
        BY <1>5, <4>1, <4>2
    <3> QED
      BY <1>1, <3>1 DEF AllGiven
<1>9. Own'
  <2>1. \A c \in 1..cmd : ~(sent[c].shell = shell /\ sent[c].seq = seq + 1)
    BY <1>6 DEF TornInv, AllGiven
  <2> QED
    BY <1>1, <1>3, <1>5, <2>1 DEF Own
<1> QED
  BY <1>7, <1>8, <1>9 DEF TornInv

LEMMA NextTorn ==
    ASSUME TypeInv, BirthInv, TornInv, [Next]_vars
    PROVE  TornInv'
<1>1. CASE Container \/ \E k \in Shell : ReaderDies(k)
  BY <1>1, ReaderTorn DEF Container
<1>2. CASE Worker
  BY <1>2, ScriptTorn, DropTorn, CallerTorn, SetupTorn DEF Worker, Recovery
<1> QED
  BY <1>1, <1>2, GhostTorn, RunBashTorn, CallerTorn DEF Next

LEMMA InitTorn == Init => TornInv
<1> SUFFICES ASSUME Init PROVE TornInv
  OBVIOUS
<1>1. \A k \in Shell : \A s \in SeqNo : ~Torn(k, s)
  BY DEF Init, Torn
<1> QED
  BY <1>1 DEF Init, TornInv, TornCut, AllGiven, Own, Asked

\* A command reported as completed was taken by the shell it was sent to, its
\* run is over and what ran is the whole of it, however often the tunnel
\* dropped and the number was staged and pushed again; half of it only if the
\* tunnel dropped while its body was being staged (_vacli/backend.py _fifo_run,
\* _fifo_exec_combined, recover_last).
THEOREM CompletedMeansRan == Spec => []AnswerMeansRan
<1>1. TypeInv /\ BirthInv /\ AnswerInv /\ TornInv /\ [Next]_vars =>
         BirthInv' /\ AnswerInv' /\ TornInv'
  BY NextBirths, NextAnswers, NextTorn
<1>2. TypeInv /\ AnswerInv /\ TornInv => AnswerMeansRan
  <2> SUFFICES ASSUME TypeInv, AnswerInv, TornInv, NEW c \in 1..cmd, answer[c] = "done"
               PROVE  LET k == sent[c].shell
                          s == sent[c].seq
                      IN  /\ \/ ran[k][s] = "whole"
                             \/ ran[k][s] = "torn" /\ sent[c].cut
                          /\ ~(reader[k] = "run" /\ last[k] = s)
    BY DEF AnswerMeansRan, Cmd, TypeInv, CallTypes
  <2>1. sent[c].shell \in Shell /\ sent[c].seq \in SeqNo
    BY SentTypes
  <2>2. Over(sent[c].shell, sent[c].seq)
    BY DEF AnswerInv, Answered
  <2>3. ran[sent[c].shell][sent[c].seq] \in {"whole", "torn"}
    BY <2>1, <2>2 DEF Over, TypeInv, BoxTypes
  <2>4. ran[sent[c].shell][sent[c].seq] = "torn" => sent[c].cut
    BY <2>1 DEF TornInv, TornCut, Torn, CutOf
  <2> QED
    BY <2>2, <2>3, <2>4 DEF Over
<1> QED
  BY <1>1, <1>2, InitBirths, InitAnswers, InitTorn, TypesHold, PTL DEF Spec

-----------------------------------------------------------------------------
(* The agent's session.                                                     *)

\* The command under way has no answer yet.
Untold == wpc \notin {"idle", "ended"} => answer[cmd] = "none"

\* Before it submits, all commands are the agent's.
OnePhase == \A c \in 1..cmd : sent[c].phase = "agent" \/ phase = "grade"

\* While the agent's session lasts, its earlier commands ran in the shell it
\* is in, or it was told of a timeout, or will be.
Continuous ==
    phase = "agent" /\ wpc # "ended" =>
        \A c \in 1..cmd : \/ sent[c].shell = shell
                          \/ setupFor # "none"
                          \/ \E e \in c..cmd : answer[e] = "timeout"

SessionInv == Untold /\ OnePhase /\ Continuous /\ SessionContinues

\* The command under way gets its answer, or none does; the shell is replaced
\* only on the way to a timeout or to the end.
LEMMA SessionSteps ==
    ASSUME TypeInv, SessionInv, UNCHANGED cmd, UNCHANGED sent \/ SameCalls,
           phase' \in {phase, "grade"},
           \/ UNCHANGED answer /\ (wpc' \notin {"idle", "ended"} => wpc \notin {"idle", "ended"})
           \/ /\ wpc \notin {"idle", "ended"} /\ wpc' \in {"idle", "ended"}
              /\ \E x \in Answer : Told(x),
           wpc' # "ended" => wpc # "ended",
           wpc' # "ended" /\ phase' = "agent" =>
              \/ setupFor' # "none"
              \/ Told("timeout") /\ cmd >= 1
              \/ shell' = shell /\ setupFor = "none"
    PROVE  SessionInv'
<1>0. cmd \in Nat /\ answer \in Seq(Answer) /\ Len(answer) = cmd
  BY DEF TypeInv, CallTypes
<1>6. \A c \in 1..cmd : sent'[c].shell = sent[c].shell /\ sent'[c].phase = sent[c].phase
  BY DEF SameCalls
<1>1. \A e \in 1..cmd : answer[e] = "timeout" => answer'[e] = "timeout"
  <2>1. CASE UNCHANGED answer
    BY <2>1
  <2>2. CASE wpc \notin {"idle", "ended"} /\ \E x \in Answer : Told(x)
    <3>1. answer[cmd] = "none"
      BY <2>2 DEF SessionInv, Untold
    <3> QED
      BY <1>0, <2>2, <3>1 DEF Told
  <2> QED
    BY <2>1, <2>2
<1>2. Untold'
  BY DEF SessionInv, Untold
<1>3. OnePhase'
  BY <1>6 DEF SessionInv, OnePhase
<1>4. Continuous'
  <2> SUFFICES ASSUME phase' = "agent", wpc' # "ended", NEW c \in 1..cmd,
                      setupFor' = "none"
               PROVE  \/ sent[c].shell = shell'
                      \/ \E e \in c..cmd : answer'[e] = "timeout"
    BY <1>6 DEF Continuous
  <2>1. CASE Told("timeout") /\ cmd >= 1
    <3>1. answer'[cmd] = "timeout" /\ cmd \in c..cmd
      BY <1>0, <2>1 DEF Told
    <3> QED
      BY <3>1
  <2>2. CASE shell' = shell /\ setupFor = "none"
    <3>1. phase = "agent" /\ wpc # "ended"
      OBVIOUS
    <3>2. sent[c].shell = shell \/ \E e \in c..cmd : answer[e] = "timeout"
      BY <2>2, <3>1 DEF SessionInv, Continuous
    <3>3. \A e \in c..cmd : e \in 1..cmd
      BY <1>0
    <3> QED
      BY <1>1, <2>2, <3>2, <3>3
  <2> QED
    BY <2>1, <2>2
<1>5. SessionContinues'
  <2> SUFFICES ASSUME NEW c \in Cmd, NEW d \in Cmd, c < d, d <= cmd,
                      sent'[d].phase = "agent", sent'[c].shell # sent'[d].shell
               PROVE  \E e \in c..(d - 1) : answer'[e] = "timeout"
    BY DEF SessionContinues
  <2>0. c \in 1..cmd /\ d \in 1..cmd
    BY <1>0 DEF Cmd
  <2>3. sent[d].phase = "agent" /\ sent[c].shell # sent[d].shell
    BY <1>6, <2>0
  <2>1. PICK e \in c..(d - 1) : answer[e] = "timeout"
    BY <2>3 DEF SessionInv, SessionContinues
  <2>2. e \in 1..cmd
    BY <1>0 DEF Cmd
  <2> QED
    BY <1>1, <2>1, <2>2
<1> QED
  BY <1>2, <1>3, <1>4, <1>5 DEF SessionInv

\* A command is sent into a shell that continues the agent's session.
LEMMA RunBashSession ==
    ASSUME TypeInv, SessionInv, RunBash
    PROVE  SessionInv'
<1>1. /\ cmd' = cmd + 1 /\ wpc = "idle" /\ wpc' = "exec"
      /\ UNCHANGED <<phase, setupFor, shell>> /\ setupFor = "none"
      /\ sent' = Append(sent, [shell |-> shell, seq |-> seq + 1, phase |-> phase,
          cut |-> FALSE])
      /\ answer' = Append(answer, "none")
  BY DEF RunBash, Send, TypeInv, Places, InSetup
<1>2. cmd \in Nat /\ Len(sent) = cmd /\ Len(answer) = cmd
      /\ sent \in Seq(Sent) /\ answer \in Seq(Answer) /\ phase \in Phase
  BY DEF TypeInv, CallTypes
<1>3. /\ sent'[cmd + 1].shell = shell /\ sent'[cmd + 1].phase = phase
      /\ answer'[cmd + 1] = "none"
      /\ \A c \in 1..cmd : sent'[c] = sent[c] /\ answer'[c] = answer[c]
  <2> DEFINE r == [shell |-> shell, seq |-> seq + 1, phase |-> phase,
          cut |-> FALSE]
  <2>1. sent'[cmd + 1] = r /\ r.shell = shell /\ r.phase = phase
    BY <1>1, <1>2
  <2> QED
    BY <1>1, <1>2, <2>1
<1>4. Untold'
  BY <1>1, <1>3 DEF Untold
<1>5. OnePhase'
  BY <1>1, <1>2, <1>3 DEF SessionInv, OnePhase, Phase
<1>6. ASSUME phase = "agent", NEW c \in 1..cmd
      PROVE  sent[c].shell = shell \/ \E e \in c..cmd : answer[e] = "timeout"
  BY <1>1, <1>6 DEF SessionInv, Continuous
<1>7. Continuous'
  <2> SUFFICES ASSUME phase = "agent", NEW c \in 1..(cmd + 1)
               PROVE  \/ sent'[c].shell = shell
                      \/ \E e \in c..(cmd + 1) : answer'[e] = "timeout"
    BY <1>1 DEF Continuous
  <2>1. CASE c = cmd + 1
    BY <1>3, <2>1
  <2>2. CASE c \in 1..cmd
    <3>1. \A e \in c..cmd : e \in c..(cmd + 1) /\ answer'[e] = answer[e]
      BY <1>2, <1>3, <2>2
    <3> QED
      BY <1>3, <1>6, <2>2, <3>1
  <2> QED
    BY <1>2, <2>1, <2>2
<1>8. SessionContinues'
  <2> SUFFICES ASSUME NEW c \in Cmd, NEW d \in Cmd, c < d, d <= cmd + 1,
                      sent'[d].phase = "agent", sent'[c].shell # sent'[d].shell
               PROVE  \E e \in c..(d - 1) : answer'[e] = "timeout"
    BY <1>1 DEF SessionContinues
  <2>1. c \in 1..cmd /\ \A e \in c..(d - 1) : e \in 1..cmd
    BY <1>2 DEF Cmd
  <2>2. CASE d = cmd + 1
    <3>1. PICK e \in c..cmd : answer[e] = "timeout"
      BY <1>3, <1>6, <2>1, <2>2
    <3>2. e \in c..(d - 1)
      BY <1>2, <2>1, <2>2, <3>1
    <3>3. answer'[e] = answer[e]
      BY <1>3, <2>1, <3>2
    <3> QED
      BY <3>1, <3>2, <3>3
  <2>3. CASE d <= cmd
    <3>1. sent'[d] = sent[d] /\ sent'[c] = sent[c]
      BY <1>2, <1>3, <2>1, <2>3 DEF Cmd
    <3>2. \E e \in c..(d - 1) : answer[e] = "timeout"
      BY <2>3, <3>1 DEF SessionInv, SessionContinues
    <3> QED
      BY <1>3, <2>1, <3>2
  <2> QED
    BY <1>2, <2>2, <2>3 DEF Cmd
<1> QED
  BY <1>4, <1>5, <1>7, <1>8 DEF SessionInv

LEMMA SetupSession ==
    ASSUME TypeInv, SessionInv, Setup
    PROVE  SessionInv'
<1>1. /\ UNCHANGED <<cmd, sent, phase>> /\ setupFor \in {"timeout", "restart"}
      /\ wpc \notin {"idle", "ended"} /\ cmd >= 1
  BY AnswersKept DEF Setup, Teardown, MakeDir, Spawn, RunPreamble, NotUp, SetupDone,
     callVars, ClientTypes, Places, InSetup
<1>2. CASE UNCHANGED <<answer, setupFor>> /\ wpc' # "idle" /\ wpc' # "ended"
  BY <1>1, <1>2, SessionSteps
<1>3. CASE /\ wpc' \in {"idle", "ended"}
           /\ \/ Told("timeout")
              \/ Told("lost") /\ (wpc' = "ended" \/ phase # "agent")
  BY <1>1, <1>3, SessionSteps DEF Answer
<1>4. CASE Teardown \/ Spawn \/ RunPreamble
  BY <1>2, <1>4 DEF Teardown, Spawn, RunPreamble, Send, callVars
<1>5. CASE MakeDir \/ NotUp
  <2>1. CASE AfterBroken
    BY <1>1, <1>3, <2>1 DEF AfterBroken
  <2> QED
    BY <1>2, <1>5, <2>1 DEF MakeDir, NotUp
<1>6. CASE SetupDone
  BY <1>1, <1>3, <1>6 DEF SetupDone, AfterRebuild
<1> QED
  BY <1>4, <1>5, <1>6 DEF Setup

LEMMA WorkerSession ==
    ASSUME TypeInv, SessionInv,
           \/ ScriptStep \/ ExecDrops \/ ExecFails \/ Reply \/ TimeOut \/ Recovery
    PROVE  SessionInv'
<1>0. /\ UNCHANGED <<cmd, phase, shell>>
      /\ wpc \notin {"idle", "ended"} /\ cmd >= 1
      /\ UNCHANGED sent \/ \E todo : CutIfStaging(todo)
  BY AnswersKept DEF ScriptStep, ExecDrops, ExecFails, Reply, TimeOut, Expired, Recovery,
     GraderGoesOn, GraderRetries, Reattach, GiveUp, FoundAlive, FoundDead, RecoveryDrops,
     ProbeBody, Restage, ProbeStarted, Repush, RepushFails, Recovered, callVars
<1>1. UNCHANGED <<cmd, phase, shell>> /\ wpc \notin {"idle", "ended"} /\ cmd >= 1 /\ SameCalls
  BY <1>0, CutCalls
<1>2. CASE ScriptStep
  BY <1>1, <1>2, SessionSteps DEF ScriptStep, callVars
<1>3. CASE ExecDrops \/ ExecFails
  <2>0. AfterBroken
    BY <1>3 DEF ExecDrops, ExecFails
  <2>1. CASE setupFor = "none"
    BY <1>1, <2>0, <2>1, SessionSteps DEF AfterBroken
  <2>2. CASE setupFor = "timeout"
    BY <1>1, <2>0, <2>2, SessionSteps DEF AfterBroken, Answer
  <2>3. CASE setupFor = "restart"
    BY <1>1, <2>0, <2>3, SessionSteps DEF AfterBroken, Answer
  <2> QED
    BY <2>1, <2>2, <2>3, AnswersKept DEF ClientTypes
<1>4. CASE Reply \/ TimeOut \/ Recovery
  <2>1. setupFor = "none"
    BY <1>4, AnswersKept DEF Reply, TimeOut, Expired, Recovery,
     GraderGoesOn, GraderRetries, Reattach, GiveUp, FoundAlive, FoundDead, RecoveryDrops,
     ProbeBody, Restage, ProbeStarted, Repush, RepushFails, Recovered, Places, InSetup
  <2>2. \/ UNCHANGED answer /\ wpc' \notin {"idle", "ended"}
        \/ wpc' \in {"idle", "ended"} /\ \E x \in Answer : Told(x)
    BY <1>4 DEF Reply, TimeOut, Expired, Recovery,
     GraderGoesOn, GraderRetries, Reattach, GiveUp, FoundAlive, FoundDead, RecoveryDrops,
     ProbeBody, Restage, ProbeStarted, Repush, RepushFails, Recovered, callVars, Answer
  <2> QED
    BY <1>1, <2>1, <2>2, SessionSteps
<1> QED
  BY <1>2, <1>3, <1>4

LEMMA NextSession ==
    ASSUME TypeInv, SessionInv, [Next]_vars
    PROVE  SessionInv'
<1>1. CASE Worker
  BY <1>1, SetupSession, WorkerSession DEF Worker
<1>2. CASE Container \/ GhostStep \/ (\E k \in Shell : ReaderDies(k)) \/ UNCHANGED vars
  <2>1. UNCHANGED <<phase, cmd, sent, answer, wpc, setupFor, shell>>
    BY <1>2 DEF Container, SkipToken, TakeToken, CommandEnds, GhostStep, ReaderDies, vars,
       callVars, clientVars
  <2> QED
    BY <2>1 DEF SessionInv, Untold, OnePhase, Continuous, SessionContinues
<1>3. CASE Submit
  <2>1. phase' = "grade" /\ UNCHANGED <<cmd, sent, answer, wpc>> /\ wpc = "idle"
    BY <1>3 DEF Submit, clientVars
  <2> QED
    BY <2>1, SessionSteps
<1> QED
  BY <1>1, <1>2, <1>3, RunBashSession DEF Next

LEMMA InitSession == Init => SessionInv
<1> SUFFICES ASSUME Init PROVE SessionInv
  OBVIOUS
<1>1. cmd = 0 /\ wpc = "idle"
  BY DEF Init
<1> QED
  BY <1>1 DEF SessionInv, Untold, OnePhase, Continuous, SessionContinues, Cmd

\* Between two commands of the agent the shell is the same one, unless the
\* agent was told of a timeout in between: after a rebuild by restart_session
\* the rollout ends instead of going on in an empty shell (env.py's loop,
\* _vacli/backend.py recover_last and _fifo_run).
THEOREM SessionNeverSwitched == Spec => []SessionContinues
<1>1. TypeInv /\ SessionInv /\ [Next]_vars => SessionInv'
  BY NextSession
<1>2. SessionInv => SessionContinues
  BY DEF SessionInv
<1> QED
  BY <1>1, <1>2, InitSession, TypesHold, PTL DEF Spec

=============================================================================
