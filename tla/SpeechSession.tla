---------------------------- MODULE SpeechSession ----------------------------
(***************************************************************************)
(* What both builds promise the TTS server: a session is opened only on    *)
(* behalf of a user, over a connection, and where there is none; it ends   *)
(* with the connection or is ended for the user, and no user leaves while  *)
(* one is open.  TTSClientThunder and RdkatAtk implement it, each in many  *)
(* steps of two threads.                                                   *)
(***************************************************************************)
CONSTANT Ids            \* of sessions

VARIABLES
    wanted,             \* there is a user: speech is wanted
    connected,          \* there is a connection to the server
    sessions            \* the sessions that are open

vars == <<wanted, connected, sessions>>

Init ==
    /\ wanted = FALSE
    /\ connected \in BOOLEAN
    /\ sessions = {}

Want ==
    /\ ~wanted
    /\ wanted' = TRUE
    /\ UNCHANGED <<connected, sessions>>

Leave ==
    /\ wanted
    /\ sessions = {}
    /\ wanted' = FALSE
    /\ UNCHANGED <<connected, sessions>>

Connect ==
    /\ ~connected
    /\ connected' = TRUE
    /\ UNCHANGED <<wanted, sessions>>

\* A server that closes the connection takes the session with it.
Close ==
    /\ connected
    /\ connected' = FALSE
    /\ sessions' = {}
    /\ UNCHANGED wanted

Open(id) ==
    /\ wanted
    /\ connected
    /\ sessions = {}
    /\ sessions' = {id}
    /\ UNCHANGED <<wanted, connected>>

End ==
    /\ wanted
    /\ sessions' = {}
    /\ UNCHANGED <<wanted, connected>>

Next ==
    \/ Want
    \/ Leave
    \/ Connect
    \/ Close
    \/ \E id \in Ids : Open(id)
    \/ End

Spec == Init /\ [][Next]_vars
==============================================================================
