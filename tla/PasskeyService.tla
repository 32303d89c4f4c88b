--------------------------- MODULE PasskeyService ---------------------------
(***************************************************************************)
(* What passkeys promise, with no ceremony, cache or worker in sight: a    *)
(* credential is registered as it was created and for whom, once, and its  *)
(* owner gets in with what it signed, on a signature counter that rises.   *)
(***************************************************************************)
EXTENDS Integers

CONSTANTS Users, Active, Creds, Counts, None

VARIABLES
    born,       \* born[c]: for whom and with which count c was created, or None
    shown,      \* <<c, n>>: an authenticator has signed for c with count n
    rows,       \* rows[c]: the registered owner and last count of c, or None
    accepted,   \* <<c, n>>: a signature of c with count n was accepted
    broken      \* credentials whose counter no longer counts

passkeyVars == <<born, shown, rows, accepted, broken>>

PasskeyInit ==
    /\ born = [c \in Creds |-> None]
    /\ shown = {}
    /\ rows = [c \in Creds |-> None]
    /\ accepted = {}
    /\ broken = {}

Bear(c, u, n) ==
    /\ born[c] = None
    /\ born' = [born EXCEPT ![c] = [user |-> u, count |-> n]]
    /\ UNCHANGED <<shown, rows, accepted, broken>>

Show(c, n) ==
    /\ born[c] # None
    /\ shown' = shown \cup {<<c, n>>}
    /\ UNCHANGED <<born, rows, accepted, broken>>

Register(c) ==
    /\ born[c] # None
    /\ rows[c] = None
    /\ rows' = [rows EXCEPT ![c] = born[c]]
    /\ UNCHANGED <<born, shown, accepted, broken>>

\* A count that does not rise is taken only by breaking the counter.
Accept(c, n) ==
    /\ rows[c] # None
    /\ rows[c].user \in Active
    /\ <<c, n>> \in shown
    /\ \/ n > rows[c].count /\ UNCHANGED broken
       \/ broken' = broken \cup {c}
    /\ rows' = [rows EXCEPT ![c].count = n]
    /\ accepted' = accepted \cup {<<c, n>>}
    /\ UNCHANGED <<born, shown>>

PasskeyNext ==
    \E c \in Creds :
        \/ Register(c)
        \/ \E n \in Counts :
            \/ Show(c, n)
            \/ Accept(c, n)
            \/ \E u \in Users : Bear(c, u, n)

PasskeySpec == PasskeyInit /\ [][PasskeyNext]_passkeyVars
=============================================================================
