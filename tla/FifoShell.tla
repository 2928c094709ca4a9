------------------------------ MODULE FifoShell ------------------------------
(***************************************************************************)
(* The persistent shell of the terminal environment                        *)
(* (environments/vmvm_tb_v2/.../_vacli/backend.py) and the two callers     *)
(* that drive it: the agent loop of env.py, which restarts the session and *)
(* recovers the interrupted command, and the grader of evaluation.py,      *)
(* which restarts and goes on with its next command.                       *)
(*                                                                         *)
(* A shell is a reader process inside the container with a directory of    *)
(* its own.  For a command with sequence number s the client stages the    *)
(* body as file c<s>, pushes the token s through a FIFO, and waits for the *)
(* done marker d<s>; the reader writes the started marker s<s> when it     *)
(* takes the token.  Client and container are joined by an ssh tunnel that *)
(* may drop at any moment: the client then does not know how far its       *)
(* script got, and the script may run on by itself (a ghost).  ssh, bash   *)
(* and podman are modelled from how the scripts use them.                  *)
(***************************************************************************)
EXTENDS Integers, Sequences, FiniteSets

CONSTANTS
    MaxCmds,        \* bound: commands a rollout sends
    MaxDrops,       \* bound: times the tunnel drops
    Cap             \* reconnects allowed, per phase

Phase == {"agent", "grade"}

ASSUME BoundsAssumption ==
    /\ MaxCmds \in Nat /\ MaxDrops \in Nat
    /\ Cap \in [Phase -> Nat]

\* A command rebuilds the shell at most once: no bound on shells is needed.
Shell == 1..(MaxCmds + 1)
Cmd == 1..MaxCmds
SeqNo == 1..(MaxCmds + 1)

\* In the container, per shell.
VARIABLES
    dir,            \* the session directory exists
    reader,         \* the reader process
    fifo,           \* tokens in the command FIFO
    last,           \* __vacli_last, the reader's in-memory gate
    body,           \* c<s>: what is staged
    started,        \* s<s> markers
    done,           \* d<s> markers (written with e<s>, after o<s>)
    ran,            \* history: what the reader sourced for a number
    ghosts          \* scripts that outlived their connection

\* In the client.
VARIABLES
    phase,          \* who drives the shell
    wpc,            \* where the worker thread is
    setupFor,       \* why _setup_fifo_shell is running, "none" if it is not
    shell,          \* the shell _sess_dir names
    seq,            \* _cmd_seq
    pending,        \* the number in _pending, 0 for None
    script,         \* steps the combined script has still to do
    cmd,            \* the command being run
    sent,           \* history of a command: its shell, number and phase, and
                    \* whether the tunnel dropped while its body was staged
    answer,         \* what the caller was told of a command
    reconnects,     \* restart_session calls of this phase
    drops           \* bounds the drops

boxVars == <<dir, reader, fifo, last, body, started, done, ran>>
callVars == <<phase, cmd, sent, answer, reconnects>>
clientVars == <<wpc, setupFor, shell, seq, pending, script>>
vars == <<boxVars, ghosts, callVars, clientVars, drops>>

Blank(x) == [s \in SeqNo |-> x]

\* __init__ has built the first shell and run its preamble as number 1.
Init ==
    /\ dir = [k \in Shell |-> k = 1]
    /\ reader = [k \in Shell |-> IF k = 1 THEN "idle" ELSE "none"]
    /\ fifo = [k \in Shell |-> <<>>]
    /\ last = [k \in Shell |-> IF k = 1 THEN 1 ELSE 0]
    /\ body = [k \in Shell |-> [s \in SeqNo |-> IF k = 1 /\ s = 1 THEN "whole" ELSE "none"]]
    /\ started = [k \in Shell |-> IF k = 1 THEN {1} ELSE {}]
    /\ done = [k \in Shell |-> IF k = 1 THEN {1} ELSE {}]
    /\ ran = [k \in Shell |-> [s \in SeqNo |-> IF k = 1 /\ s = 1 THEN "whole" ELSE "no"]]
    /\ ghosts = {}
    /\ phase = "agent" /\ wpc = "idle" /\ setupFor = "none"
    /\ shell = 1 /\ seq = 1 /\ pending = 0 /\ script = <<>>
    /\ cmd = 0 /\ sent = <<>> /\ answer = <<>>
    /\ reconnects = 0 /\ drops = 0

-----------------------------------------------------------------------------
(* The container: the reader loop, and the steps of the scripts the client *)
(* runs there.                                                             *)

\* Mutant of Gated: only the last number is remembered.
GatedEqual(k, s) == s = last[k]

\* The reader skips a number it has already taken, or one before it.
Gated(k, s) == s <= last[k]

SkipToken(k) ==
    /\ reader[k] = "idle" /\ fifo[k] # <<>> /\ Gated(k, Head(fifo[k]))
    /\ fifo' = [fifo EXCEPT ![k] = Tail(@)]
    /\ UNCHANGED <<dir, reader, last, body, started, done, ran, ghosts,
                   callVars, clientVars, drops>>

\* The reader takes a number, marks it started and sources what is staged;
\* with nothing staged `source` fails at once.
TakeToken(k) ==
    /\ reader[k] = "idle" /\ fifo[k] # <<>> /\ ~Gated(k, Head(fifo[k]))
    /\ LET s == Head(fifo[k]) IN
         /\ last' = [last EXCEPT ![k] = s]
         /\ started' = [started EXCEPT ![k] = @ \cup {s}]
         /\ IF body[k][s] = "none"
            THEN done' = [done EXCEPT ![k] = @ \cup {s}] /\ UNCHANGED <<reader, ran>>
            ELSE /\ reader' = [reader EXCEPT ![k] = "run"]
                 /\ ran' = [ran EXCEPT ![k][s] = body[k][s]]
                 /\ UNCHANGED done
    /\ fifo' = [fifo EXCEPT ![k] = Tail(@)]
    /\ UNCHANGED <<dir, body, ghosts, callVars, clientVars, drops>>

\* The command ends; its exit code and done marker are written.
CommandEnds(k) ==
    /\ reader[k] = "run"
    /\ reader' = [reader EXCEPT ![k] = "idle"]
    /\ done' = [done EXCEPT ![k] = @ \cup {last[k]}]
    /\ UNCHANGED <<dir, fifo, last, body, started, ran, ghosts, callVars,
                   clientVars, drops>>

\* A sourced command may also end the reader (`exit`, `exec` of a program that
\* ends), at once or, by what it left in the background or did to the held
\* writer, later; the preamble does not.  An `exec` of a program that goes on is
\* a command that does not end.
ReaderDies(k) ==
    /\ reader[k] \in {"idle", "run"} /\ last[k] > 1
    /\ reader' = [reader EXCEPT ![k] = "dead"]
    /\ UNCHANGED <<dir, fifo, last, body, started, done, ran, ghosts, callVars,
                   clientVars, drops>>

\* One step of a script for number s of shell k:
\*   rm     frees the files of the previous number and the markers of s
\*   stage  writes c<s> (to a temporary file, then renamed)
\*   push   writes the token into the FIFO
Apply(k, s, step, b) ==
    /\ body' = CASE step = "rm" -> [body EXCEPT ![k] = [r \in SeqNo |-> IF r = s - 1 THEN "none" ELSE @[r]]]
                 [] step = "stage" -> [body EXCEPT ![k][s] = b]
                 [] step = "push" -> body
    /\ started' = IF step = "rm" THEN [started EXCEPT ![k] = @ \ {s - 1, s}] ELSE started
    /\ done' = IF step = "rm" THEN [done EXCEPT ![k] = @ \ {s - 1, s}] ELSE done
    /\ fifo' = IF step = "push" THEN [fifo EXCEPT ![k] = Append(@, s)] ELSE fifo
    /\ UNCHANGED <<dir, reader, last, ran>>

\* Staging needs the directory; opening the FIFO for writing needs a reader.
CanDo(k, step) ==
    /\ step \in {"rm", "stage"} => dir[k]
    /\ step = "push" => dir[k] /\ reader[k] \in {"idle", "run"}

\* A script whose connection is gone goes on by itself, or gets stuck.
GhostStep ==
    /\ wpc # "ended"
    /\ \E g \in ghosts :
         /\ CanDo(g.shell, Head(g.todo))
         /\ Apply(g.shell, g.seq, Head(g.todo), g.body)
         /\ ghosts' = (ghosts \ {g}) \cup
              {h \in {[g EXCEPT !.todo = Tail(@)]} : h.todo # <<>>}
    /\ UNCHANGED <<callVars, clientVars, drops>>

-----------------------------------------------------------------------------
(* Sending a command and waiting for it. *)

Told(x) == answer' = [answer EXCEPT ![cmd] = x]

\* Mutant of Send: _pending is recorded before the number is taken.
SendEarly(n) ==
    /\ seq' = n /\ pending' = n - 1
    /\ script' = <<"rm", "stage", "push">>
    /\ wpc' = "exec"

\* _fifo_run: a new number, and the combined script.
Send(n) ==
    /\ seq' = n /\ pending' = n
    /\ script' = <<"rm", "stage", "push">>
    /\ wpc' = "exec"

\* run_bash.  The bound on numbers per shell follows from MaxCmds.
RunBash ==
    /\ wpc = "idle" /\ cmd < MaxCmds
    /\ cmd' = cmd + 1
    /\ sent' = Append(sent, [shell |-> shell, seq |-> seq + 1, phase |-> phase,
                             cut |-> FALSE])
    /\ answer' = Append(answer, "none")
    /\ Send(seq + 1)
    /\ UNCHANGED <<boxVars, ghosts, phase, reconnects, setupFor, shell, drops>>

ScriptStep ==
    /\ wpc = "exec" /\ script # <<>>
    /\ CanDo(shell, Head(script))
    /\ Apply(shell, seq, Head(script), "whole")
    /\ script' = Tail(script)
    /\ UNCHANGED <<ghosts, callVars, wpc, setupFor, shell, seq, pending, drops>>

\* What a broken_pipe result makes of the worker: inside setup it raises,
\* which a timed-out _fifo_run swallows and restart_session reports as False;
\* otherwise the agent loop restarts and the grader decides.
AfterBroken ==
    CASE setupFor = "timeout" -> Told("timeout") /\ wpc' = "idle" /\ setupFor' = "none"
      [] setupFor = "restart" -> Told("lost") /\ wpc' = "ended" /\ setupFor' = "none"
      [] OTHER -> /\ wpc' = IF phase = "agent" THEN "restart" ELSE "abandon"
                  /\ UNCHANGED <<setupFor, answer>>

Drop == drops < MaxDrops /\ drops' = drops + 1

Stages(todo) == \E i \in DOMAIN todo : todo[i] = "stage"

\* A ghost of number s.  When its connection goes before `cat` has read the
\* whole body, `cat` sees the end of its input and stages what it has, perhaps
\* nothing.
Ghosts(s, todo) ==
    IF todo = <<>> THEN {{}}
    ELSE {{[shell |-> shell, seq |-> s, todo |-> todo, body |-> b]} :
             b \in IF Stages(todo) THEN {"whole", "torn"} ELSE {"whole"}}

\* History: the connection of cmd goes with todo still to be done for it.
CutIfStaging(todo) ==
    sent' = IF Stages(todo) THEN [sent EXCEPT ![cmd].cut = TRUE] ELSE sent

\* The tunnel drops under the combined script, of the command or the preamble.
ExecDrops ==
    /\ wpc = "exec" /\ Drop
    /\ \E new \in Ghosts(seq, script) : ghosts' = ghosts \cup new
    /\ IF setupFor = "none" THEN CutIfStaging(script) ELSE UNCHANGED sent
    /\ AfterBroken
    /\ script' = <<>>
    /\ UNCHANGED <<boxVars, phase, cmd, reconnects, shell, seq, pending>>

\* Without a directory the script exits 91; without a reader it blocks until
\* the client gives up.  Either way the reply is missing.
ExecFails ==
    /\ wpc = "exec" /\ script # <<>>
    /\ ~CanDo(shell, Head(script))
    /\ AfterBroken
    /\ script' = <<>>
    /\ UNCHANGED <<boxVars, ghosts, phase, cmd, sent, reconnects, shell, seq,
                   pending, drops>>

\* The framed reply arrives.  The reply to the preamble ends the setup.
Reply ==
    /\ wpc = "exec" /\ script = <<>> /\ setupFor = "none"
    /\ seq \in done[shell]
    /\ pending' = 0
    /\ Told("done") /\ wpc' = "idle"
    /\ UNCHANGED <<boxVars, ghosts, phase, cmd, sent, reconnects, setupFor,
                   shell, seq, script, drops>>

\* Mutant of Expired: the wait loop has no deadline.
ExpiredNever == FALSE

\* The deadline of a wait passes before the done marker appears.  Left out: a
\* preamble that takes longer than its 30 seconds, whose own _fifo_run tears the
\* shell down and sets up another one before the setup around it raises.
Expired ==
    /\ wpc \in {"exec", "wait"} /\ script = <<>> /\ setupFor = "none"
    /\ seq \notin done[shell]

\* A timeout: the caller will be told, after the shell has been reset.
TimeOut ==
    /\ Expired
    /\ pending' = 0
    /\ setupFor' = "timeout" /\ wpc' = "teardown"
    /\ UNCHANGED <<boxVars, ghosts, callVars, shell, seq, script, drops>>

-----------------------------------------------------------------------------
(* _teardown_fifo_shell and _setup_fifo_shell. *)

Killed(k) ==
    /\ reader' = [reader EXCEPT ![k] = "dead"]
    /\ dir' = [dir EXCEPT ![k] = FALSE]
    /\ fifo' = [fifo EXCEPT ![k] = <<>>]
    /\ body' = [body EXCEPT ![k] = Blank("none")]
    /\ started' = [started EXCEPT ![k] = {}]
    /\ done' = [done EXCEPT ![k] = {}]
    /\ UNCHANGED <<last, ran>>

\* Best effort: whether it worked is not looked at.
Teardown ==
    /\ wpc = "teardown"
    /\ \/ Killed(shell) /\ UNCHANGED drops
       \/ Drop /\ UNCHANGED boxVars
    /\ pending' = 0
    /\ wpc' = "mkdir"
    /\ UNCHANGED <<ghosts, callVars, setupFor, shell, seq, script>>

\* A fresh directory, named by a fresh nonce; setup raises if ssh failed.
MakeDir ==
    /\ wpc = "mkdir"
    /\ shell' = shell + 1 /\ seq' = 0 /\ pending' = 0
    /\ \/ /\ dir' = [dir EXCEPT ![shell + 1] = TRUE]
          /\ wpc' = "spawn" /\ UNCHANGED <<drops, setupFor, answer>>
       \/ /\ Drop
          /\ \E made \in BOOLEAN : dir' = [dir EXCEPT ![shell + 1] = made]
          /\ AfterBroken
    /\ UNCHANGED <<reader, fifo, last, body, started, done, ran, ghosts, phase,
                   cmd, sent, reconnects, script>>

\* The held writer and the reader are started detached; nobody looks at the
\* results.
Spawn ==
    /\ wpc = "spawn"
    /\ \/ reader' = [reader EXCEPT ![shell] = "idle"] /\ UNCHANGED drops
       \/ Drop /\ UNCHANGED reader
    /\ wpc' = "up"
    /\ UNCHANGED <<dir, fifo, last, body, started, done, ran, ghosts, callVars,
                   setupFor, shell, seq, pending, script>>

\* The shell is up: run the preamble as number 1.
RunPreamble ==
    /\ wpc = "up" /\ reader[shell] = "idle"
    /\ Send(1)
    /\ UNCHANGED <<boxVars, ghosts, callVars, setupFor, shell, drops>>

\* It does not come up, or cannot be reached, for 30 seconds.
NotUp ==
    /\ wpc = "up"
    /\ IF reader[shell] = "idle" THEN Drop ELSE UNCHANGED drops
    /\ AfterBroken
    /\ UNCHANGED <<boxVars, ghosts, phase, cmd, sent, reconnects, shell, seq,
                   pending, script>>

\* Mutant of AfterRebuild: the loss of the shell is not reported.
AfterRebuildSilent == wpc' = "idle"

\* restart_session has built a new shell: recover_last declines and the agent
\* loop gives the rollout up, the grader starts over.
AfterRebuild == wpc' = IF phase = "agent" THEN "ended" ELSE "idle"

\* The preamble has run; setup returns to whoever asked for it.
SetupDone ==
    /\ wpc = "exec" /\ script = <<>> /\ setupFor # "none"
    /\ seq \in done[shell]
    /\ pending' = 0
    /\ IF setupFor = "timeout"
       THEN Told("timeout") /\ wpc' = "idle"
       ELSE Told("lost") /\ AfterRebuild
    /\ setupFor' = "none"
    /\ UNCHANGED <<boxVars, ghosts, phase, cmd, sent, reconnects, shell, seq,
                   script, drops>>

-----------------------------------------------------------------------------
(* Dropped connections: restart_session and recover_last. *)

\* The grader ignores the result and runs its next command, or gives the
\* attempt up.
GraderGoesOn ==
    /\ wpc = "abandon"
    /\ Told("lost") /\ wpc' = "idle"
    /\ UNCHANGED <<boxVars, ghosts, phase, cmd, sent, reconnects, setupFor,
                   shell, seq, pending, script, drops>>

GraderRetries ==
    /\ wpc = "abandon"
    /\ wpc' = "restart"
    /\ UNCHANGED <<boxVars, ghosts, callVars, setupFor, shell, seq, pending,
                   script, drops>>

\* The tunnel heals or is resumed, and the container still runs.
Reattach ==
    /\ wpc = "restart" /\ reconnects < Cap[phase]
    /\ reconnects' = reconnects + 1
    /\ wpc' = "alive"
    /\ UNCHANGED <<boxVars, ghosts, phase, cmd, sent, answer, setupFor, shell,
                   seq, pending, script, drops>>

\* Out of reconnects, or the box is gone: an infrastructure error.
GiveUp ==
    /\ wpc = "restart"
    /\ Told("lost") /\ wpc' = "ended"
    /\ UNCHANGED <<boxVars, ghosts, phase, cmd, sent, reconnects, setupFor,
                   shell, seq, pending, script, drops>>

ShellAlive(k) == dir[k] /\ reader[k] \in {"idle", "run"}

\* The shell answers: recover the pending command, or let the grader go on.
FoundAlive ==
    /\ wpc = "alive" /\ ShellAlive(shell)
    /\ IF phase = "agent"
       THEN wpc' = "probe" /\ UNCHANGED answer
       ELSE wpc' = "idle" /\ Told("lost")
    /\ UNCHANGED <<boxVars, ghosts, phase, cmd, sent, reconnects, setupFor,
                   shell, seq, pending, script, drops>>

\* _fifo_shell_alive is False for a dead shell, and when ssh fails.
FoundDead ==
    /\ wpc = "alive"
    /\ IF ShellAlive(shell) THEN Drop ELSE UNCHANGED drops
    /\ setupFor' = "restart" /\ wpc' = "teardown"
    /\ UNCHANGED <<boxVars, ghosts, callVars, shell, seq, pending, script>>

\* An ssh call of recover_last fails; what it ran there may run on.
RecoveryDrops ==
    /\ wpc \in {"probe", "restage", "marked", "repush", "wait"} /\ Drop
    /\ LET todo == CASE wpc = "restage" -> <<"stage">>
                     [] wpc = "repush" -> <<"push">>
                     [] OTHER -> <<>>
       IN /\ \E new \in Ghosts(pending, todo) : ghosts' = ghosts \cup new
          /\ CutIfStaging(todo)
    /\ wpc' = "restart"
    /\ UNCHANGED <<boxVars, phase, cmd, answer, reconnects, setupFor, shell, seq,
                   pending, script>>

\* Mutant of IsStaged: recover_last trusts that the body is there.
IsStagedAssumed == TRUE

IsStaged == body[shell][pending] # "none"

\* 1) is c<s> there?
ProbeBody ==
    /\ wpc = "probe"
    /\ wpc' = IF IsStaged THEN "marked" ELSE "restage"
    /\ UNCHANGED <<boxVars, ghosts, callVars, setupFor, shell, seq, pending,
                   script, drops>>

Restage ==
    /\ wpc = "restage" /\ dir[shell]
    /\ Apply(shell, pending, "stage", "whole")
    /\ wpc' = "marked"
    /\ UNCHANGED <<ghosts, callVars, setupFor, shell, seq, pending, script, drops>>

\* 2) is s<s> there, at the second look if not at the first?
ProbeStarted ==
    /\ wpc = "marked"
    /\ wpc' = IF pending \in started[shell] THEN "wait" ELSE "repush"
    /\ UNCHANGED <<boxVars, ghosts, callVars, setupFor, shell, seq, pending,
                   script, drops>>

Repush ==
    /\ wpc = "repush" /\ CanDo(shell, "push")
    /\ Apply(shell, pending, "push", "whole")
    /\ wpc' = "wait"
    /\ UNCHANGED <<ghosts, callVars, setupFor, shell, seq, pending, script, drops>>

\* The reader died since the probe: the push times out.
RepushFails ==
    /\ wpc = "repush" /\ ~CanDo(shell, "push")
    /\ wpc' = "restart"
    /\ UNCHANGED <<boxVars, ghosts, callVars, setupFor, shell, seq, pending,
                   script, drops>>

\* 3) the result is read and the files of the number are removed.
Recovered ==
    /\ wpc = "wait" /\ pending \in done[shell]
    /\ \/ /\ body' = [body EXCEPT ![shell][pending] = "none"]
          /\ started' = [started EXCEPT ![shell] = @ \ {pending}]
          /\ done' = [done EXCEPT ![shell] = @ \ {pending}]
          /\ UNCHANGED <<dir, reader, fifo, last, ran, drops>>
       \/ Drop /\ UNCHANGED boxVars
    /\ pending' = 0
    /\ Told("done") /\ wpc' = "idle"
    /\ UNCHANGED <<ghosts, phase, cmd, sent, reconnects, setupFor, shell, seq,
                   script>>

\* The agent submits: from here on the grader drives the shell.
Submit ==
    /\ wpc = "idle" /\ phase = "agent"
    /\ phase' = "grade" /\ reconnects' = 0
    /\ UNCHANGED <<boxVars, ghosts, cmd, sent, answer, clientVars, drops>>

-----------------------------------------------------------------------------
Container == \E k \in Shell : SkipToken(k) \/ TakeToken(k) \/ CommandEnds(k)

Setup == Teardown \/ MakeDir \/ Spawn \/ RunPreamble \/ NotUp \/ SetupDone

Recovery ==
    \/ GraderGoesOn \/ GraderRetries \/ Reattach \/ GiveUp
    \/ FoundAlive \/ FoundDead \/ RecoveryDrops
    \/ ProbeBody \/ Restage \/ ProbeStarted \/ Repush \/ RepushFails \/ Recovered

Worker ==
    \/ ScriptStep \/ ExecDrops \/ ExecFails \/ Reply \/ TimeOut
    \/ Setup \/ Recovery

Next ==
    \/ Container \/ Worker \/ GhostStep
    \/ RunBash \/ Submit
    \/ \E k \in Shell : ReaderDies(k)

Spec == Init /\ [][Next]_vars

\* The worker thread runs, every wait has a deadline, the reader is scheduled
\* and the preamble ends.  Nothing is assumed of ghosts, of the tunnel or of
\* the end of any other command.
Fairness ==
    /\ WF_vars(Worker)
    /\ WF_vars(\E k \in Shell : SkipToken(k) \/ TakeToken(k))
    /\ WF_vars(\E k \in Shell : last[k] = 1 /\ CommandEnds(k))

FairSpec == Spec /\ Fairness

-----------------------------------------------------------------------------
Step == {"rm", "stage", "push"}

TypeOK ==
    /\ dir \in [Shell -> BOOLEAN]
    /\ reader \in [Shell -> {"none", "idle", "run", "dead"}]
    /\ fifo \in [Shell -> Seq(SeqNo)]
    /\ last \in [Shell -> {0} \cup SeqNo]
    /\ body \in [Shell -> [SeqNo -> {"none", "whole", "torn"}]]
    /\ started \in [Shell -> SUBSET SeqNo] /\ done \in [Shell -> SUBSET SeqNo]
    /\ ran \in [Shell -> [SeqNo -> {"no", "whole", "torn"}]]
    /\ \A g \in ghosts : /\ g.shell \in Shell /\ g.seq \in SeqNo
                         /\ g.todo \in Seq(Step) /\ g.todo # <<>>
    /\ phase \in Phase /\ setupFor \in {"none", "timeout", "restart"}
    /\ wpc \in {"idle", "exec", "teardown", "mkdir", "spawn", "up", "abandon",
                "restart", "alive", "probe", "restage", "marked", "repush",
                "wait", "ended"}
    /\ shell \in Shell /\ seq \in {0} \cup SeqNo /\ pending \in {0, seq}
    /\ script \in Seq(Step) /\ Len(script) <= 3
    /\ cmd = Len(sent) /\ Len(answer) = cmd /\ cmd <= MaxCmds
    /\ reconnects \in Nat /\ drops \in 0..MaxDrops

\* However often a token is pushed, re-pushed after a drop or pushed late by
\* a ghost, a shell runs a number at most once, and never after a later one:
\* an abandoned command cannot come back after the commands that follow it.
RunsOnceInOrder ==
    [][\A k \in Shell : \A s \in SeqNo : ran'[k][s] # ran[k][s] =>
           \A r \in SeqNo : ran[k][r] # "no" => r < s]_vars

\* A command reported as completed was taken by the shell it was sent to, its
\* run is over, and what ran is the whole of it: neither a drop nor a recovery
\* reports a command that was never taken, one that is still running, or half
\* of one.  The exception is the code's: when the tunnel drops while the body
\* is staged, what arrived of it, perhaps nothing, is renamed into place and
\* run, and reported as the command's result.
AnswerMeansRan ==
    \A c \in Cmd : c <= cmd /\ answer[c] = "done" =>
        LET k == sent[c].shell
            s == sent[c].seq
        IN  /\ \/ ran[k][s] = "whole"
               \/ ran[k][s] = "torn" /\ sent[c].cut
            /\ ~(reader[k] = "run" /\ last[k] = s)

\* The agent sees one continuous session: between two of its commands the
\* shell (cwd, environment) changes only if it was told of a timeout.
SessionContinues ==
    \A c, d \in Cmd :
        c < d /\ d <= cmd /\ sent[d].phase = "agent" /\ sent[c].shell # sent[d].shell =>
            \E e \in c..(d - 1) : answer[e] = "timeout"

\* Every command is answered in the end, or the rollout ends, although
\* commands may hang and kill their shell, scripts may get stuck and the
\* tunnel may drop during the recovery.
EveryCommandAnswered ==
    \A c \in Cmd : (cmd = c) ~> (c <= cmd /\ answer[c] # "none")

=============================================================================
