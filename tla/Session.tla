------------------------------ MODULE Session ------------------------------
(***************************************************************************)
(* What a server and a client get from a connection, whatever travels on   *)
(* the wire: each validates the other, the server first; the client learns *)
(* its ID; then each receives the messages the other sends, in order.      *)
(***************************************************************************)
EXTENDS Naturals, Sequences

CONSTANT ClientID

Ends == {"Server", "Client"}
Other(e) == IF e = "Server" THEN "Client" ELSE "Server"

VARIABLES
    alike,      \* do the two ends encrypt alike?
    status,     \* what each end has been told of the other
    id,         \* the client's ID as each end knows it, 0 if it does not
    sent,       \* how many messages each end has sent
    received    \* the numbers of the messages each end has received

svars == <<alike, status, id, sent, received>>

SInit ==
    /\ alike \in BOOLEAN
    /\ status = [e \in Ends |-> "none"]
    /\ id = [e \in Ends |-> 0]
    /\ sent = [e \in Ends |-> 0]
    /\ received = [e \in Ends |-> <<>>]

Admit ==
    /\ id["Server"] = 0
    /\ id' = [id EXCEPT !["Server"] = ClientID]
    /\ UNCHANGED <<alike, status, sent, received>>

\* The server decides, and decides right.
ServerValidates ==
    /\ id["Server"] # 0 /\ status["Server"] = "none"
    /\ status' = [status EXCEPT
                     !["Server"] = IF alike THEN "validated" ELSE "invalidated"]
    /\ UNCHANGED <<alike, id, sent, received>>

\* The client only ever hears from a server that has validated it.
ClientValidates ==
    /\ status["Server"] = "validated" /\ status["Client"] = "none"
    /\ status' = [status EXCEPT !["Client"] = "validated"]
    /\ id' = [id EXCEPT !["Client"] = id["Server"]]
    /\ UNCHANGED <<alike, sent, received>>

SendNext(e) ==
    /\ status[e] = "validated"
    /\ sent' = [sent EXCEPT ![e] = @ + 1]
    /\ UNCHANGED <<alike, status, id, received>>

ReceiveNext(e) ==
    /\ \A f \in Ends : status[f] = "validated"
    /\ Len(received[e]) < sent[Other(e)]
    /\ received' = [received EXCEPT ![e] = Append(@, Len(@) + 1)]
    /\ UNCHANGED <<alike, status, id, sent>>

SNext ==
    \/ Admit \/ ServerValidates \/ ClientValidates
    \/ \E e \in Ends : SendNext(e) \/ ReceiveNext(e)

SSpec == SInit /\ [][SNext]_svars
=============================================================================
