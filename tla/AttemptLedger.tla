---------------------------- MODULE AttemptLedger ----------------------------
(***************************************************************************)
(* What claiming a scan job promises, without rows, leases or sessions: a  *)
(* ledger issues the attempts 1..MaxAttempts of each job in order, each to *)
(* one worker, and a worker that gives its attempt back never returns it   *)
(* to the ledger.  ScanQueue is shown to implement it.                     *)
(***************************************************************************)
EXTENDS Integers

CONSTANTS Jobs, Workers, MaxAttempts, None

VARIABLES
    issued,  \* the attempts of each job issued so far
    ticket   \* the attempt each worker holds

ledgerVars == <<issued, ticket>>

NoTicket == [job |-> None, no |-> 0]

LedgerInit ==
    /\ issued = [j \in Jobs |-> 0]
    /\ ticket = [w \in Workers |-> NoTicket]

\* The next attempt of j goes to w.
Issue(w, j) ==
    /\ ticket[w] = NoTicket
    /\ issued[j] < MaxAttempts
    /\ issued' = [issued EXCEPT ![j] = @ + 1]
    /\ ticket' = [ticket EXCEPT ![w] = [job |-> j, no |-> issued[j] + 1]]

\* The worker ends its attempt or dies with it.
GiveUp(w) ==
    /\ ticket[w] # NoTicket
    /\ ticket' = [ticket EXCEPT ![w] = NoTicket]
    /\ UNCHANGED issued

LedgerNext ==
    \E w \in Workers : GiveUp(w) \/ \E j \in Jobs : Issue(w, j)

LedgerSpec == LedgerInit /\ [][LedgerNext]_ledgerVars
=============================================================================
