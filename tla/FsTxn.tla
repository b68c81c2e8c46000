------------------------------- MODULE FsTxn -------------------------------
(***************************************************************************)
(* What Failsafe promises an application, whatever the journal does to     *)
(* keep the promise: the volume is a map from blocks to contents, writes   *)
(* are seen at once, a commit makes all of them survive a power failure,   *)
(* and a power failure leaves the volume as the last commit left it.       *)
(***************************************************************************)
EXTENDS Naturals

CONSTANTS Block, Content

VARIABLES
    visible,     \* what a read returns
    durable,     \* what a mount after a power failure would give
    committing   \* a commit has been called and has not returned

txnVars == <<visible, durable, committing>>

TxnInit ==
    /\ visible \in [Block -> Content]
    /\ durable = visible
    /\ committing = FALSE

Write ==
    /\ ~committing
    /\ \E b \in Block, c \in Content : visible' = [visible EXCEPT ![b] = c]
    /\ UNCHANGED <<durable, committing>>

\* A write that has to wait for the journal may be cut short by a crash:
\* then it never happened.  Nothing of it is durable before its commit.
CommitCall ==
    /\ ~committing
    /\ committing' = TRUE
    /\ UNCHANGED <<visible, durable>>

\* The instant the transaction becomes permanent: all of it at once.
Persist ==
    /\ committing
    /\ durable' = visible
    /\ UNCHANGED <<visible, committing>>

CommitReturn ==
    /\ committing
    /\ durable = visible
    /\ committing' = FALSE
    /\ UNCHANGED <<visible, durable>>

PowerFail ==
    /\ visible' = durable
    /\ committing' = FALSE
    /\ UNCHANGED durable

TxnNext == Write \/ CommitCall \/ Persist \/ CommitReturn \/ PowerFail

TxnSpec == TxnInit /\ [][TxnNext]_txnVars
=============================================================================
