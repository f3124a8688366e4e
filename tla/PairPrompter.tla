---------------------------- MODULE PairPrompter ----------------------------
(***************************************************************************)
(* The pairing prompt (cmd/scomp/pairing_prompt.go): the queue of pair     *)
(* requests, the goroutine that reads stdin, the prompt loop with its      *)
(* timer, and the sender of the relay connection that is current.  A pair  *)
(* request is its number, a typed line is "pin" or "empty".                *)
(***************************************************************************)
EXTENDS Naturals, Sequences, FiniteSets

CONSTANTS RequestCap,   \* capacity of p.requests (4)
          MaxRequests,  \* bound: pair_request messages
          MaxLines,     \* bound: lines typed at the terminal
          MaxConns      \* bound: relay connections

ASSUME PrompterAssumption ==
  /\ RequestCap \in Nat \ {0}
  /\ {MaxRequests, MaxLines, MaxConns} \subseteq Nat

VARIABLES
  requests,   \* p.requests
  received,   \* pair requests received so far; names the newest
  running,    \* p.run has been started
  stdin,      \* lines typed and not yet read
  typed,      \* lines typed so far (bound)
  eof,        \* stdin is at end of file
  held,       \* line the stdin goroutine offers on lines, as a sequence of 0 or 1
  linesOpen,  \* the stdin goroutine has not closed lines
  noStdin,    \* the prompt loop knows that there is no stdin
  prompt,     \* pairID of the prompt showing, Nil when there is none
  expired,    \* pairID whose timer channel the loop selects on, Nil when nil
  fired,      \* pairIDs whose timer has fired
  sending,    \* the submission the loop is in the middle of, as a sequence
  submit,     \* connection whose sender is installed, Nil when disconnected
  conns,      \* connections made so far; names the newest
  connOpen,   \* the newest connection's connDone is not closed
  sent        \* submissions reported as made: pair and connection (history)

lineVars == <<stdin, typed, eof, held, linesOpen>>
promptVars == <<noStdin, prompt, expired, fired>>
connVars == <<submit, conns, connOpen>>
pairVars == <<requests, received, running, lineVars, promptVars, sending, connVars, sent>>

Nil == 0

-----------------------------------------------------------------------------
(* The relay side *)

\* request: start the loop on the first one, and queue it unless full.
Request ==
  /\ submit # Nil /\ received < MaxRequests
  /\ received' = received + 1
  /\ running' = TRUE
  /\ requests' = IF Len(requests) < RequestCap THEN Append(requests, received + 1) ELSE requests
  /\ UNCHANGED <<lineVars, promptVars, sending, connVars, sent>>

\* connected installs the new connection's sendOK.
Connected ==
  /\ submit = Nil /\ ~connOpen /\ conns < MaxConns
  /\ conns' = conns + 1
  /\ submit' = conns + 1
  /\ connOpen' = TRUE
  /\ UNCHANGED <<requests, received, running, lineVars, promptVars, sending, sent>>

\* connDone closes; the deferred disconnected() comes later.
ConnDone ==
  /\ connOpen
  /\ connOpen' = FALSE
  /\ UNCHANGED <<requests, received, running, lineVars, promptVars, sending, submit, conns, sent>>

Disconnected ==
  /\ submit # Nil /\ ~connOpen
  /\ submit' = Nil
  /\ UNCHANGED <<requests, received, running, lineVars, promptVars, sending, conns, connOpen, sent>>

-----------------------------------------------------------------------------
(* The terminal *)

\* The user types a PIN or an empty line, whatever the screen shows.
Type(kind) ==
  /\ ~eof /\ typed < MaxLines
  /\ typed' = typed + 1
  /\ stdin' = Append(stdin, kind)
  /\ UNCHANGED <<requests, received, running, eof, held, linesOpen, promptVars, sending, connVars, sent>>

Eof ==
  /\ ~eof
  /\ eof' = TRUE
  /\ UNCHANGED <<requests, received, running, stdin, typed, held, linesOpen, promptVars, sending, connVars, sent>>

\* The stdin goroutine reads a line and blocks on lines until it is taken.
ReadLine ==
  /\ running /\ linesOpen /\ held = << >> /\ stdin # << >>
  /\ held' = <<Head(stdin)>>
  /\ stdin' = Tail(stdin)
  /\ UNCHANGED <<requests, received, running, typed, eof, linesOpen, promptVars, sending, connVars, sent>>

ReadEof ==
  /\ running /\ linesOpen /\ held = << >> /\ stdin = << >> /\ eof
  /\ linesOpen' = FALSE
  /\ UNCHANGED <<requests, received, running, stdin, typed, eof, held, promptVars, sending, connVars, sent>>

-----------------------------------------------------------------------------
(* The prompt loop *)

InSelect == running /\ sending = << >>

\* Mutant of ShowPrompt: the loop keeps selecting on the replaced timer.
ShowPromptOldTimer ==
  /\ InSelect /\ requests # << >>
  /\ requests' = Tail(requests)
  /\ prompt' = IF noStdin THEN prompt ELSE Head(requests)
  /\ expired' = IF noStdin \/ expired # Nil THEN expired ELSE Head(requests)
  /\ UNCHANGED <<received, running, lineVars, noStdin, fired, sending, connVars, sent>>

\* Mutant of ShowPrompt: a request that arrives while a prompt shows is lost.
ShowPromptIgnored ==
  /\ InSelect /\ requests # << >>
  /\ requests' = Tail(requests)
  /\ prompt' = IF noStdin \/ prompt # Nil THEN prompt ELSE Head(requests)
  /\ expired' = IF noStdin \/ prompt # Nil THEN expired ELSE Head(requests)
  /\ UNCHANGED <<received, running, lineVars, noStdin, fired, sending, connVars, sent>>

\* case id := <-p.requests: replace the prompt and start its own timer.
ShowPrompt ==
  /\ InSelect /\ requests # << >>
  /\ requests' = Tail(requests)
  /\ prompt' = IF noStdin THEN prompt ELSE Head(requests)
  /\ expired' = IF noStdin THEN expired ELSE Head(requests)
  /\ UNCHANGED <<received, running, lineVars, noStdin, fired, sending, connVars, sent>>

\* Mutant of Stop: the timer is stopped but the prompt is not cleared.
StopKeepsPrompt == UNCHANGED prompt /\ expired' = Nil

\* stop: the prompt and its timer channel are forgotten.
Stop == prompt' = Nil /\ expired' = Nil

\* case line := <-lines: discarded without a prompt; otherwise the prompt ends
\* and a PIN that is not empty is submitted.
TakeLine ==
  /\ InSelect /\ held # << >>
  /\ held' = << >>
  /\ IF prompt = Nil THEN UNCHANGED <<prompt, expired, sending>>
     ELSE /\ Stop
          /\ sending' = IF Head(held) = "empty" THEN << >>
                        ELSE <<[pair |-> prompt, via |-> Nil]>>
  /\ UNCHANGED <<requests, received, running, stdin, typed, eof, linesOpen, noStdin, fired, connVars, sent>>

\* case _, ok := <-lines with lines closed.
StdinClosed ==
  /\ InSelect /\ ~linesOpen /\ ~noStdin
  /\ noStdin' = TRUE
  /\ Stop
  /\ UNCHANGED <<requests, received, running, lineVars, fired, sending, connVars, sent>>

\* send, first step: load the current sender; without one nothing is submitted,
\* and sendOK, its first select, finds connDone closed.
SendLoad ==
  /\ sending # << >> /\ Head(sending).via = Nil
  /\ sending' = IF submit = Nil \/ ~connOpen THEN << >>
                ELSE <<[Head(sending) EXCEPT !.via = submit]>>
  /\ UNCHANGED <<requests, received, running, lineVars, promptVars, connVars, sent>>

\* sendOK, second select: queued on the connection it was loaded for, even if
\* connDone is closed by now; or connDone is seen; or the queue is full, which
\* closes that connection.
SendQueue ==
  /\ sending # << >> /\ Head(sending).via # Nil
  /\ sending' = << >>
  /\ LET s == Head(sending)
         open == connOpen /\ s.via = conns
     IN  \/ /\ sent' = sent \cup {s}
            /\ UNCHANGED connOpen
         \/ ~open /\ UNCHANGED <<sent, connOpen>>
         \/ open /\ connOpen' = FALSE /\ UNCHANGED sent
  /\ UNCHANGED <<requests, received, running, lineVars, promptVars, submit, conns>>

\* The TTL of the prompt that is showing runs out; a stopped timer never fires.
TimerFires ==
  /\ expired # Nil /\ expired \notin fired
  /\ fired' = fired \cup {expired}
  /\ UNCHANGED <<requests, received, running, lineVars, noStdin, prompt, expired, sending, connVars, sent>>

\* case <-expired.
Expire ==
  /\ InSelect /\ expired \in fired
  /\ Stop
  /\ UNCHANGED <<requests, received, running, lineVars, noStdin, fired, sending, connVars, sent>>

-----------------------------------------------------------------------------

PairInit ==
  /\ requests = << >> /\ received = 0 /\ running = FALSE
  /\ stdin = << >> /\ typed = 0 /\ eof = FALSE /\ held = << >> /\ linesOpen = TRUE
  /\ noStdin = FALSE /\ prompt = Nil /\ expired = Nil /\ fired = {}
  /\ sending = << >>
  /\ submit = Nil /\ conns = 0 /\ connOpen = FALSE
  /\ sent = {}

LoopStep == ShowPrompt \/ TakeLine \/ StdinClosed \/ Expire \/ SendLoad \/ SendQueue

PairNext ==
  \/ Request \/ Connected \/ ConnDone \/ Disconnected
  \/ Type("pin") \/ Type("empty") \/ Eof \/ ReadLine \/ ReadEof
  \/ LoopStep \/ TimerFires

PairSpec == PairInit /\ [][PairNext]_pairVars

\* The prompt loop takes every case that stays ready (Go's select is random),
\* the stdin goroutine runs, and a timer that is not stopped fires.
PairFairness ==
  /\ SF_pairVars(ShowPrompt) /\ SF_pairVars(Expire) /\ SF_pairVars(StdinClosed)
  /\ WF_pairVars(LoopStep) /\ WF_pairVars(ReadLine) /\ WF_pairVars(ReadEof) /\ WF_pairVars(TimerFires)

PairFairSpec == PairSpec /\ PairFairness

-----------------------------------------------------------------------------
(* Properties *)

Pairs == 1..MaxRequests

\* A pairing is answered at most once: taking a PIN ends its prompt, so neither
\* type-ahead nor a reconnect submits a second PIN for it.
AnsweredOnce ==
  /\ \A s, t \in sent : s.pair = t.pair => s = t
  /\ \A s \in sent : prompt # s.pair /\ (sending # << >> => Head(sending).pair # s.pair)

\* Only its own timer ends a prompt: the tick of a replaced prompt's timer, fired
\* while the newer request was queued, does not (the expired channel in run).
OwnTimer ==
  [][(prompt # Nil /\ prompt' = Nil /\ UNCHANGED <<held, noStdin>>) => prompt \in fired]_pairVars

\* A request that was queued is shown, or stdin turns out to be closed.
QueuedIsShown ==
  \A id \in Pairs :
    (\E i \in DOMAIN requests : requests[i] = id) ~> (prompt = id \/ noStdin)
=============================================================================
