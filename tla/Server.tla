------------------------------- MODULE Server -------------------------------
(***************************************************************************)
(* What the models of request handlers and jobs share.  The server runs on *)
(* one event loop: a handler runs alone until it awaits a statement of the *)
(* database or a call, and then others run.  A step of a model is what     *)
(* lies between two awaits that another handler could notice.              *)
(***************************************************************************)
EXTENDS FiniteSets

CONSTANTS
  Users,
  Handlers      \* requests and jobs in progress at the same time

ASSUME ServerAssumption == IsFiniteSet(Handlers) /\ Handlers # {}

Idle == [pc |-> "idle"]
=============================================================================
