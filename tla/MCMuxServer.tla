----------------------------- MODULE MCMuxServer -----------------------------
(* Instances of MuxServer for TLC: the scenarios, each the windows that the *)
(* server starts with and how often users and programs do what.             *)
EXTENDS MuxServer

Scenario(kinds, attach, leave, input, view, manage, exit, output) ==
  [kinds |-> kinds, attach |-> attach, leave |-> leave, input |-> input,
   view |-> view, manage |-> manage, exit |-> exit, output |-> output]

MCScenarios == {
  \* two clients take the focus from each other, resize and leave
  Scenario(<<"agent">>, 2, 0, 1, 1, 0, 0, TRUE),
  Scenario(<<"shell", "agent">>, 2, 1, 0, 0, 0, 1, FALSE),
  \* they watch windows come and go
  Scenario(<<"shell", "agent">>, 1, 0, 0, 0, 1, 0, TRUE),
  Scenario(<<"shell", "agent">>, 2, 0, 0, 0, 1, 0, FALSE),
  Scenario(<<"agent">>, 1, 0, 0, 0, 1, 1, FALSE),
  Scenario(<<"agent">>, 1, 0, 0, 1, 1, 0, FALSE),
  \* and the server with the last of them
  Scenario(<<"shell", "native">>, 0, 0, 0, 0, 2, 1, FALSE),
  Scenario(<<"native">>, 1, 0, 0, 0, 1, 2, FALSE),
  Scenario(<<"agent">>, 1, 1, 1, 0, 0, 1, TRUE)}

MCFocusScenarios == {Scenario(<<"agent">>, 2, 0, 1, 2, 0, 0, TRUE)}
=============================================================================
