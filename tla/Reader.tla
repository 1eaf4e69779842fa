------------------------------- MODULE Reader -------------------------------
(***************************************************************************)
(* What IScreenReader promises the thread that calls it, as if it had no   *)
(* worker: a call is carried out once, as a whole and before it returns.   *)
(* ScreenReader implements it with a task on another thread.               *)
(***************************************************************************)
VARIABLES
    call,               \* the call that is under way
    progress,           \* how far it is
    initialized,        \* the reader is initialized
    serving,            \* its registry service runs
    ended               \* the process has come to an end

vars == <<call, progress, initialized, serving, ended>>

Init ==
    /\ call = "none"
    /\ progress = "none"
    /\ initialized = FALSE
    /\ serving = FALSE
    /\ ended = FALSE

\* initialize and uninitialize; where there is nothing to do neither begins.
Call ==
    /\ call = "none"
    /\ call' = IF initialized THEN "uninitialize" ELSE "initialize"
    /\ progress' = "asked"
    /\ UNCHANGED <<initialized, serving, ended>>

Begin ==
    /\ progress = "asked"
    /\ progress' = "begun"
    /\ UNCHANGED <<call, initialized, serving, ended>>

\* The service may fail to start, and then nobody is told.
BecomeInitialized ==
    /\ progress = "begun"
    /\ call = "initialize"
    /\ progress' = "done"
    /\ initialized' = TRUE
    /\ serving' \in BOOLEAN
    /\ UNCHANGED <<call, ended>>

FailToInitialize ==
    /\ progress = "begun"
    /\ call = "initialize"
    /\ progress' = "done"
    /\ UNCHANGED <<call, initialized, serving, ended>>

StopServing ==
    /\ progress = "begun"
    /\ call = "uninitialize"
    /\ serving' = FALSE
    /\ UNCHANGED <<call, progress, initialized, ended>>

BecomeUninitialized ==
    /\ progress = "begun"
    /\ call = "uninitialize"
    /\ ~serving
    /\ progress' = "done"
    /\ initialized' = FALSE
    /\ UNCHANGED <<call, serving, ended>>

Return ==
    /\ progress = "done"
    /\ call' = "none"
    /\ progress' = "none"
    /\ UNCHANGED <<initialized, serving, ended>>

EndProcess ==
    /\ ended' = TRUE
    /\ UNCHANGED <<call, progress, initialized, serving>>

Finish == BecomeInitialized \/ FailToInitialize \/ StopServing \/ BecomeUninitialized

Next ==
    /\ ~ended
    /\ Call \/ Begin \/ Finish \/ Return \/ EndProcess

Safe == Init /\ [][Next]_vars

\* What is called is carried out, and the caller goes on.
Spec ==
    /\ Safe
    /\ WF_vars(~ended /\ (Begin \/ Finish \/ Return))
=============================================================================
