----------------------------- MODULE LeaderCheck -----------------------------
(***************************************************************************)
(* checkLeader (client/leader.go): one goroutine per endpoint asks for its *)
(* health, over a connection of its own; one more waits for all of them;   *)
(* and the caller takes the first thing that comes, the leader, the report *)
(* that there is none or the timeout.  Both channels are unbuffered, so    *)
(* that to send and to receive is one step of two goroutines.              *)
(***************************************************************************)
EXTENDS TransportCreds

VARIABLES ctx,         \* "live", "expired" (time is up) or "cancelled"
          prober,      \* prober[ep]: where the goroutine of ep is
          waiter,      \* where the goroutine is that waits for all of them
          leader       \* {} while checkLeader runs, then what it returns

checkVars == <<ctx, prober, waiter, leader>>
vars == <<connVars, checkVars>>

\* The empty address, with ErrNoLeader.
NoLeader == [scheme |-> "", host |-> ""]

CheckOf(ep) == [ep |-> ep, of |-> "check"]

Init ==
    /\ ConnInit
    /\ ctx = "live"
    /\ prober = [ep \in Endpoints |-> "ask"]
    /\ waiter = "wait"
    /\ leader = {}

(* The server answers, SERVING or not.                                     *)
HealthAnswer(ep) ==
    /\ prober[ep] = "ask"
    /\ conn[CheckOf(ep)] = "ready"
    /\ \E p \in {"send", "unhealthy"} : prober' = [prober EXCEPT ![ep] = p]
    /\ UNCHANGED <<ctx, waiter, leader>>

(* Check returns an error: the connection failed or was lost, the server   *)
(* does not know the method, or the context is done.                       *)
HealthFails(ep) ==
    /\ prober[ep] = "ask"
    /\ prober' = [prober EXCEPT ![ep] = "unhealthy"]
    /\ UNCHANGED <<ctx, waiter, leader>>

\* A mutant of Return: the select takes whatever comes, again and again.
ReturnAgain(result) ==
    /\ leader' = leader \cup {result}
    /\ ctx' = IF ctx = "live" THEN "cancelled" ELSE ctx

\* The deferred cancel when checkLeader returns.
Return(result) ==
    /\ leader = {}
    /\ leader' = {result}
    /\ ctx' = IF ctx = "live" THEN "cancelled" ELSE ctx

(* addrc <- addr, and the select takes it.                                 *)
SendLeader(ep) ==
    /\ prober[ep] = "send"
    /\ Return(ep)
    /\ prober' = [prober EXCEPT ![ep] = "done"]
    /\ UNCHANGED waiter

\* A mutant of LeaveLeader: the send is not in a select.
LeaveLeaderNever(ep) == FALSE /\ UNCHANGED checkVars

(* case <-ctx.Done().                                                      *)
LeaveLeader(ep) ==
    /\ prober[ep] = "send"
    /\ ctx # "live"
    /\ prober' = [prober EXCEPT ![ep] = "done"]
    /\ UNCHANGED <<ctx, waiter, leader>>

\* A mutant of AllDone: wg.Done() comes before the send.
AllAnswered == \A ep \in Endpoints : prober[ep] # "ask"

\* wg.Wait() returns.
AllDone == \A ep \in Endpoints : prober[ep] \in {"unhealthy", "done"}

(* errc <- ErrNoLeader, and the select takes it.                           *)
SendNoLeader ==
    /\ waiter = "wait" /\ AllDone
    /\ Return(NoLeader)
    /\ waiter' = "done"
    /\ UNCHANGED prober

LeaveNoLeader ==
    /\ waiter = "wait" /\ AllDone
    /\ ctx # "live"
    /\ waiter' = "done"
    /\ UNCHANGED <<ctx, prober, leader>>

(* The select takes ctx.Done(): "cause only by timeout".                   *)
TimedOut ==
    /\ ctx = "expired"
    /\ Return(NoLeader)
    /\ UNCHANGED <<prober, waiter>>

(* The second is over.                                                     *)
Timeout ==
    /\ ctx = "live"
    /\ ctx' = "expired"
    /\ UNCHANGED <<prober, waiter, leader>>

Prober(ep) == \/ HealthAnswer(ep) \/ HealthFails(ep)
              \/ SendLeader(ep) \/ LeaveLeader(ep)

Check == \/ \E ep \in Endpoints : Prober(ep)
         \/ SendNoLeader \/ LeaveNoLeader
         \/ TimedOut \/ Timeout

Next == \/ Check /\ UNCHANGED connVars
        \/ (\E c \in Conns : Connect(c)) /\ UNCHANGED checkVars

Spec == Init /\ [][Next]_vars

(***************************************************************************)
(* Time passes, goroutines that can go on do so, and an RPC whose context  *)
(* is done returns.  Neither the network nor the servers need do anything. *)
(***************************************************************************)
Fairness ==
    /\ WF_vars(Timeout /\ UNCHANGED connVars)
    /\ WF_vars((SendNoLeader \/ LeaveNoLeader) /\ UNCHANGED connVars)
    /\ WF_vars(TimedOut /\ UNCHANGED connVars)
    /\ \A ep \in Endpoints :
           WF_vars(/\ \/ ctx # "live" /\ HealthFails(ep)
                      \/ SendLeader(ep) \/ LeaveLeader(ep)
                   /\ UNCHANGED connVars)

FairSpec == Spec /\ Fairness
-----------------------------------------------------------------------------
(* Properties.                                                             *)

\* Every variable has its type.
TypeOK ==
    /\ ConnTypeOK
    /\ ctx \in {"live", "expired", "cancelled"}
    /\ prober \in [Endpoints -> {"ask", "unhealthy", "send", "done"}]
    /\ waiter \in {"wait", "done"}
    /\ leader \in {{}} \cup {{ep} : ep \in Endpoints \cup {NoLeader}}

\* checkLeader returns an endpoint that answered with SERVING, over a
\* connection that was handshaken, and ErrNoLeader only when no endpoint did
\* or after the timeout, whichever goroutine comes first.
Probe == INSTANCE LeaderProbe WITH
             answer <- [ep \in Endpoints |->
                 CASE prober[ep] = "ask" -> "asked"
                   [] prober[ep] = "unhealthy" -> "no"
                   [] OTHER -> "serving"],
             expired <- ctx = "expired",
             verdict <- leader
ImplementsProbe == Probe!Spec

\* checkLeader returns, and leaves no goroutine behind that waits on a
\* channel which nobody reads any more.
EverybodyEnds ==
    <>(/\ leader # {} /\ waiter = "done"
       /\ \A ep \in Endpoints : prober[ep] \in {"unhealthy", "done"})
=============================================================================
