---------------------------- MODULE MCAttachOutput ----------------------------
(* Instances of AttachOutput for TLC: the scenarios.                         *)
EXTENDS AttachOutput

Scenario(repaints, attached, attach, asking, focusing, switch, pause, lose) ==
  [redraws |-> repaints, attached |-> attached, attach |-> attach, asking |-> asking,
   focus |-> focusing, switch |-> switch, pause |-> pause, lose |-> lose]

MCScenarios == {
  \* a query, and connections that fail while it is written
  Scenario(FALSE, 3, 0, <<TRUE>>, 0, 0, 0, 2),
  Scenario(FALSE, 2, 0, <<FALSE, TRUE>>, 1, 0, 0, 2),
  \* output that fills the queues
  Scenario(FALSE, 2, 0, <<FALSE, FALSE, FALSE, TRUE>>, 0, 0, 0, 0),
  \* clients attach to a window that has asked
  Scenario(FALSE, 1, 1, <<TRUE, TRUE>>, 0, 0, 0, 1),
  Scenario(FALSE, 0, 2, <<TRUE, TRUE>>, 1, 0, 0, 1),
  \* more of them than there is room for
  Scenario(FALSE, 0, 1, <<TRUE, TRUE, TRUE>>, 0, 0, 0, 1),
  \* it is hidden and shown
  Scenario(FALSE, 2, 0, <<TRUE, FALSE>>, 0, 1, 0, 1),
  Scenario(FALSE, 1, 1, <<TRUE>>, 1, 1, 0, 0),
  \* it redraws itself
  Scenario(TRUE, 3, 0, <<TRUE>>, 0, 0, 1, 1),
  Scenario(TRUE, 2, 0, <<TRUE>>, 1, 0, 1, 1),
  Scenario(TRUE, 2, 0, <<TRUE, TRUE>>, 0, 0, 2, 0),
  Scenario(TRUE, 1, 1, <<TRUE>>, 0, 1, 0, 1),
  Scenario(TRUE, 2, 0, <<FALSE>>, 1, 1, 0, 1)}
=============================================================================
