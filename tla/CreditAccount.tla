---------------------------- MODULE CreditAccount ----------------------------
(***************************************************************************)
(* What the analysis-credit account of one organization promises, without *)
(* any of its documents: credits come in (and may be taken back) from      *)
(* outside, a credit can be held for a research request, and a held credit *)
(* is either spent on unlocking one property for ever or given back.       *)
(* CreditLedger is shown to implement this specification.                  *)
(***************************************************************************)
EXTENDS Integers

CONSTANTS Requests,     \* the identities of research requests
          Properties,   \* the normalized property identities
          Sources,      \* the identities of what moves credits in or out
          Worth         \* for each source, the amounts it may move

VARIABLES spendable,    \* the credits that can still be promised to a request
          held,         \* the requests that hold one credit each
          settled,      \* the requests whose credit was spent or given back
          unlocked,     \* the properties one credit was spent on
          posted        \* the sources that have moved their credits

accountVars == <<spendable, held, settled, unlocked, posted>>

AccountInit == /\ spendable = 0
               /\ held = {}
               /\ settled = {}
               /\ unlocked = {}
               /\ posted = {}

\* A grant or a purchase adds credits, a refund or a dispute takes them back:
\* each source once.  An overdrawn account takes no credits that would leave it
\* overdrawn; what is taken back is taken at any balance.
Post(s, n) == /\ s \notin posted
              /\ n < 0 \/ spendable + n >= 0
              /\ spendable' = spendable + n
              /\ posted' = posted \cup {s}
              /\ UNCHANGED <<held, settled, unlocked>>

\* A request takes a credit out of the spendable ones, once in its life.
Hold(r) == /\ r \notin held \cup settled
           /\ spendable >= 1
           /\ spendable' = spendable - 1
           /\ held' = held \cup {r}
           /\ UNCHANGED <<settled, unlocked, posted>>

\* The held credit unlocks a property that was not unlocked before.
Unlock(r, p) == /\ r \in held
                /\ p \notin unlocked
                /\ held' = held \ {r}
                /\ settled' = settled \cup {r}
                /\ unlocked' = unlocked \cup {p}
                /\ UNCHANGED <<spendable, posted>>

\* The held credit goes back to the account.
GiveBack(r) == /\ r \in held
               /\ spendable' = spendable + 1
               /\ held' = held \ {r}
               /\ settled' = settled \cup {r}
               /\ UNCHANGED <<unlocked, posted>>

AccountNext == \/ \E s \in Sources : \E n \in Worth[s] : Post(s, n)
               \/ \E r \in Requests : Hold(r) \/ GiveBack(r)
               \/ \E r \in Requests, p \in Properties : Unlock(r, p)

AccountSpec == AccountInit /\ [][AccountNext]_accountVars
=============================================================================
