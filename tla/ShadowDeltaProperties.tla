----------------------- MODULE ShadowDeltaProperties ------------------------
(* What the delta side of the shadow library promises its caller.            *)
EXTENDS ShadowDelta

\* aws_iot_shadow_interface.h on discarding: "All the old message will be
\* ignored".  Between two resets no delta is handled twice, and none after a
\* newer one, however the network repeats and reorders them.
NoOldDelta ==
  [][\A v \in Versions :
       handled'[v] > handled[v] => \A w \in v..MaxVersion : handled[w] = 0]_vars

\* The version an old message is measured by is the newest of those the code
\* takes over, which are the answers to a get and the deltas handled while
\* discarding is on, however they are repeated and reordered; and never that of
\* update/accepted, which would hide the delta of the same version
\* (isValidShadowVersionUpdate).
VersionWasTold ==
  /\ shadowJsonVersionNum \in adopted \cup {0}
  /\ \A v \in adopted : v <= shadowJsonVersionNum

\* After the loop a registered variable holds what the last handled delta that
\* names it said, unless its entry stands behind one whose handler made a
\* request: that request reuses the parser's tokens (shadow_delta_callback).
HoldsWhatWasTold == Idle => value = told

\* The first registration of a life of the library subscribes: once a
\* registration succeeded the delta is heard, until the program disconnects or a
\* subscription fails (initDeltaTokens, registerJsonTokenOnDelta).
SteadyIsHeard == registered /\ connected /\ steady => handler /\ subscribed

\* aws_iot_shadow_interface.h on aws_iot_shadow_register_delta: "Any time a
\* delta is published the Json document will be delivered to the pStruct->cb".
\* A client that is connected and whose last registration succeeded hears it.
DeltaHeard == registered /\ connected => handler

=============================================================================
