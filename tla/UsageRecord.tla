------------------------------ MODULE UsageRecord ------------------------------
(***************************************************************************)
(* What the billing promises about an organization's usage, whatever       *)
(* replicas sweep it, in whatever order its rows commit and whatever       *)
(* deletion drains it: usage falls due once, at a cost that is final; what *)
(* is due is billed at most once; and the account is debited, with each    *)
(* bill, the whole credits its billed usage comes to, context by context.  *)
(***************************************************************************)
EXTENDS Integers, Functions

CONSTANTS
  Usage,     \* what may be billed
  Contexts,  \* the runs and chats it is attributed to
  Context    \* the context of each usage

VARIABLES
  due,       \* the final cost, in half credits, of the usage that has fallen due
  billed,    \* the usage that is billed
  debit      \* the credits debited for it

usageVars == <<due, billed, debit>>

UsageInit ==
  /\ due = [u \in {} |-> 0]
  /\ billed = {}
  /\ debit = 0

\* The credits that the usage in S comes to: a context is rounded once.
Owed(cost, S) ==
  SumFunction([x \in Contexts |->
    (SumFunctionOnSet(cost, {u \in S : Context[u] = x}) + 1) \div 2])

\* Usage falls due; a cost that was final stays so.
FallDue ==
  /\ DOMAIN due \subseteq DOMAIN due'
  /\ DOMAIN due' \subseteq Usage
  /\ \A u \in DOMAIN due' : due'[u] \in Nat
  /\ \A u \in DOMAIN due : due'[u] = due[u]
  /\ UNCHANGED <<billed, debit>>

\* A bill takes usage that is due and not billed yet.
BillUsage ==
  /\ billed \subseteq billed'
  /\ billed' \subseteq DOMAIN due
  /\ debit' = Owed(due, billed')
  /\ UNCHANGED due

UsageNext == FallDue \/ BillUsage

UsageSpec == UsageInit /\ [][UsageNext]_usageVars
=============================================================================
