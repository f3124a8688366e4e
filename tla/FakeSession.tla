---------------------------- MODULE FakeSession -----------------------------
(***************************************************************************)
(* A simulated session (fakeshell/session.go): the queue of decoded keys,  *)
(* the goroutine that supervises the program, and the control of the three *)
(* programs: shell (runShell, logout, top, TTY.Sleep), agent and logs.     *)
(* The text of a line is whether it is blank; a command is what it does to *)
(* the control and to the shell's state, whose files, directory and        *)
(* variables are one flag.  A timer may fire whenever its select waits.    *)
(***************************************************************************)
EXTENDS Naturals, Sequences

CONSTANTS KeyCap,     \* capacity of s.keys (keyQueue)
          MaxKeys,    \* bound: keys received
          MaxSteps,   \* bound: steps of a timed command (5 for build)
          MaxPanics   \* bound: panics of the program

ASSUME SessionAssumption ==
  /\ {KeyCap, MaxSteps} \subseteq Nat \ {0}
  /\ {MaxKeys, MaxPanics} \subseteq Nat

VARIABLES
  prog,      \* the program
  pc,        \* where its goroutine waits
  closed,    \* ctx is cancelled and done is closed
  keys,      \* s.keys
  writing,   \* decoded keys that Write has not yet offered
  received,  \* keys received so far (bound)
  resized,   \* there is a token in s.resized
  blank,     \* the line being read is blank
  empty,     \* the line being read is empty
  left,      \* waits left of the timed command that runs
  sh,        \* the shell's state
  panics     \* panics so far (bound)

inputVars == <<writing, received>>
readVars == <<blank, empty>>
fakeVars == <<prog, pc, closed, keys, inputVars, resized, readVars, left, sh, panics>>

Printable == {"q", "space"}
Keys == Printable \cup {"enter", "ctrlc", "ctrld"}

-----------------------------------------------------------------------------
(* The session's side: called by the agent's main loop *)

\* Write decodes a message into keys.
Write(ks) ==
  /\ writing = << >> /\ received + Len(ks) <= MaxKeys
  /\ writing' = ks
  /\ received' = received + Len(ks)
  /\ UNCHANGED <<prog, pc, closed, keys, resized, readVars, left, sh, panics>>

\* Its loop: a key is queued, or the queue is full and the rest is dropped.
Enqueue ==
  /\ writing # << >>
  /\ IF Len(keys) < KeyCap
       THEN keys' = Append(keys, Head(writing)) /\ writing' = Tail(writing)
       ELSE writing' = << >> /\ UNCHANGED keys
  /\ UNCHANGED <<prog, pc, closed, received, resized, readVars, left, sh, panics>>

Resize ==
  /\ resized' = TRUE
  /\ UNCHANGED <<prog, pc, closed, keys, inputVars, readVars, left, sh, panics>>

Close ==
  /\ ~closed /\ closed' = TRUE
  /\ UNCHANGED <<prog, pc, keys, inputVars, resized, readVars, left, sh, panics>>

-----------------------------------------------------------------------------
(* The shell's state *)

Fresh == [dirty |-> FALSE, failed |-> FALSE, changed |-> FALSE, history |-> FALSE]

\* reset: overlay, history, directory, status, variables and dirty.
ResetShell == Fresh

-----------------------------------------------------------------------------
(* The program's goroutine *)

\* The loops of runShell and runAgent: another line, unless ctx is done.
Loop(state) ==
  /\ pc' = IF closed THEN "returned" ELSE "read"
  /\ blank' = TRUE /\ empty' = TRUE /\ left' = 0
  /\ sh' = state

\* TTY.Sleep, n times.
Wait(where, n, state) ==
  /\ pc' = where /\ left' = n /\ sh' = state
  /\ blank' = TRUE /\ empty' = TRUE

Take(k) ==
  /\ keys # << >> /\ Head(keys) = k
  /\ keys' = Tail(keys)
  /\ UNCHANGED <<prog, closed, inputVars, resized, panics>>

Passes == UNCHANGED <<prog, closed, keys, inputVars, resized, panics>>

\* A key that edits the line; Ctrl-D deletes, and may leave it blank or empty.
ReadEdit ==
  /\ pc = "read" /\ UNCHANGED <<pc, left, sh>>
  /\ \/ Take("q") /\ blank' = FALSE /\ empty' = FALSE
     \/ Take("space") /\ empty' = FALSE /\ UNCHANGED blank
     \/ /\ Take("ctrld") /\ ~empty
        /\ blank' \in {blank, TRUE}
        /\ empty' \in {FALSE, blank'}

\* Enter in the shell: the line is recorded, the session is dirty, and the
\* line is run.  A blank line and a comment are not commands.
Entered == [sh EXCEPT !.dirty = TRUE, !.history = sh.history \/ ~blank]

NoCommand == pc = "read" /\ prog = "shell" /\ Take("enter") /\ Loop(Entered)

RunCommand == pc = "read" /\ prog = "shell" /\ ~blank /\ Take("enter")

\* A command that is over at once, with the effects it may have: on files,
\* directory and variables, on the history (history -c).
RunPlain ==
  /\ RunCommand
  /\ \E f, c, h \in BOOLEAN :
       Loop([Entered EXCEPT !.failed = f, !.changed = sh.changed \/ c, !.history = h])

\* sleep, build, top -b: one or more waits.
RunTimed == RunCommand /\ \E n \in 1..MaxSteps : Wait("timed", n, Entered)

RunTop == RunCommand /\ Wait("top", 0, Entered)

\* exit, and Ctrl-D on an empty line: logout resets before it waits.
RunExit == RunCommand /\ Wait("logout", 1, ResetShell)

ReadEof ==
  /\ pc = "read" /\ empty /\ Take("ctrld")
  /\ IF prog = "shell" THEN Wait("logout", 1, ResetShell) ELSE Loop(sh)

\* Mutant of Interrupted: the session does not count as used.
InterruptedClean == [sh EXCEPT !.failed = TRUE]

Interrupted == [sh EXCEPT !.dirty = TRUE, !.failed = TRUE]

\* Ctrl-C at the prompt: status 130; the agent goes on to its next task.
ReadInterrupt ==
  /\ pc = "read" /\ Take("ctrlc")
  /\ IF prog = "shell" THEN Loop(Interrupted) ELSE Wait("task", 1, sh)

\* ErrIdle: a session that was used is reset.
ReadIdle ==
  /\ pc = "read" /\ prog = "shell" /\ Passes
  /\ Loop(IF sh.dirty THEN ResetShell ELSE sh)

\* The agent's answer: y or n moves on, anything else asks again.
AgentAnswer ==
  /\ pc = "read" /\ prog = "agent" /\ Take("enter")
  /\ Loop(sh) \/ (~blank /\ Wait("task", 1, sh))

\* Sleep's timer: the next step of a timed command, or its end.
SleepOver ==
  /\ pc \in {"timed", "logout", "task"} /\ Passes
  /\ IF left > 1 THEN left' = left - 1 /\ UNCHANGED <<pc, readVars, sh>>
     ELSE Loop([sh EXCEPT !.failed = FALSE])

\* Ctrl-C ends the wait: a timed command fails, a logout and a task go on.
SleepInterrupt ==
  /\ pc \in {"timed", "logout", "task"} /\ Take("ctrlc")
  /\ Loop([sh EXCEPT !.failed = pc = "timed"])

\* Sleep discards every other key; the log and top ignore most.
KeyIgnored ==
  /\ pc \in {"timed", "logout", "task", "top", "log"}
  /\ \E k \in Keys :
       /\ Take(k)
       /\ pc = "top" => k = "ctrld"
       /\ pc # "log" => k # "ctrlc"
  /\ UNCHANGED <<pc, readVars, left, sh>>

\* topWait, refresh: its tick, a resize, space or Enter.
TopRefresh ==
  /\ pc = "top" /\ UNCHANGED <<pc, readVars, left, sh>>
  /\ \/ Passes
     \/ resized /\ resized' = FALSE /\ UNCHANGED <<prog, closed, keys, inputVars, panics>>
     \/ Take("space") \/ Take("enter")

\* Mutant of TopIdle: top has no idle timer.
TopIdleNever == FALSE

\* topWait, quit: its own idle timer, q or Ctrl-C; also the last of -n.
TopIdle == pc = "top" /\ Passes /\ Loop([sh EXCEPT !.failed = FALSE])
TopQuit == pc = "top" /\ (Take("q") \/ Take("ctrlc")) /\ Loop([sh EXCEPT !.failed = FALSE])

\* Mutant of CtxDone: the log does not look at ctx.
CtxDoneNotInLog ==
  /\ closed /\ pc \in {"read", "timed", "logout", "task", "top"}
  /\ pc' = "returned"
  /\ Passes /\ UNCHANGED <<readVars, left, sh>>

\* ctx.Done() in every select of a program: it returns.
CtxDone ==
  /\ closed /\ pc \in {"read", "timed", "logout", "task", "top", "log"}
  /\ pc' = "returned"
  /\ Passes /\ UNCHANGED <<readVars, left, sh>>

\* supervise: a panic is recovered, and the program runs again after a delay.
Panic ==
  /\ pc \notin {"returned", "stopped"} /\ panics < MaxPanics
  /\ panics' = panics + 1
  /\ pc' = "returned"
  /\ UNCHANGED <<prog, closed, keys, inputVars, resized, readVars, left, sh>>

\* A new shell, in newShell; the keys are still queued.
Restart ==
  /\ pc = "returned" /\ ~closed
  /\ pc' = IF prog = "logs" THEN "log" ELSE "read"
  /\ blank' = TRUE /\ empty' = TRUE /\ left' = 0 /\ sh' = Fresh
  /\ Passes

Stop ==
  /\ pc = "returned" /\ closed
  /\ pc' = "stopped"
  /\ Passes /\ UNCHANGED <<readVars, left, sh>>

-----------------------------------------------------------------------------

FakeInit ==
  /\ prog \in {"shell", "agent", "logs"}
  /\ pc = (IF prog = "logs" THEN "log" ELSE "read")
  /\ closed = FALSE /\ keys = << >> /\ writing = << >> /\ received = 0 /\ resized = FALSE
  /\ blank = TRUE /\ empty = TRUE /\ left = 0 /\ sh = Fresh /\ panics = 0

Messages == {<<k>> : k \in Keys} \cup {<<j, k>> : j, k \in Keys}

TakesKey ==
  \/ ReadEdit \/ NoCommand \/ RunPlain \/ RunTimed \/ RunTop \/ RunExit
  \/ ReadEof \/ ReadInterrupt \/ AgentAnswer
  \/ SleepInterrupt \/ KeyIgnored \/ TopQuit

Supervises == Restart \/ Stop

FakeNext ==
  \/ (\E ks \in Messages : Write(ks)) \/ Enqueue \/ Resize \/ Close
  \/ TakesKey \/ ReadIdle \/ SleepOver \/ TopRefresh \/ TopIdle
  \/ CtxDone \/ Panic \/ Supervises

FakeSpec == FakeInit /\ [][FakeNext]_fakeVars

\* The goroutine takes a case of its select that stays ready, and timers fire.
FakeFairness ==
  /\ WF_fakeVars(Enqueue) /\ WF_fakeVars(TakesKey) /\ WF_fakeVars(Supervises)
  /\ WF_fakeVars(ReadIdle) /\ WF_fakeVars(SleepOver) /\ WF_fakeVars(TopIdle) /\ WF_fakeVars(CtxDone)

FakeFairSpec == FakeSpec /\ FakeFairness

-----------------------------------------------------------------------------
(* Properties *)

\* A shell that does not count as used is as after login: the idle reset,
\* which skips it, never leaves the next viewer another's files, directory,
\* history or status.
CleanUnlessDirty == ~sh.dirty => sh = Fresh

\* A shell that was used is reset once input ends, whatever runs in it: every
\* program it can be left in goes back to the prompt by itself.
IdleResets == sh.dirty ~> (~sh.dirty \/ closed)

\* Close stops the goroutine, wherever it waits, and panics notwithstanding.
CloseStops == closed ~> pc = "stopped"
=============================================================================
