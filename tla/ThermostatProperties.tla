------------------------ MODULE ThermostatProperties ------------------------
(* What the two threads of the thermostat and the shadow service promise.    *)
EXTENDS Thermostat

\* Whatever the two threads do to it, the duty never leaves the period by more
\* than one step, which is as far as a report can be wrong; and what the driver
\* is told to apply never leaves the period at all (adjustPWM, pwmUpdate).
DutyInRange ==
  /\ pwmDuty \in -50..(PwmPeriod + 50)
  /\ hwDuty \in 0..PwmPeriod

\* Between two passes the heater runs at the duty the program remembers, unless
\* the start of the AWS thread cleared it in between (adjustPWM, runAWSClient).
HwFollowsDuty ==
  ctl \in {"sense", "save"} /\ pwmOpen /\ ~overwritten => hwDuty = pwmDuty

\* The inductive invariant behind both.
InPass == ctl \in {"cold", "hot", "cool", "warm", "store", "clamp", "changed"}
IInv ==
  /\ ctl = "init" => pwmDuty = 0
  /\ ctl = "store" => reg \in -50..(PwmPeriod + 50)
  /\ ctl = "set" => reg \in 0..PwmPeriod
  /\ ctl # "clamp" => pwmDuty \in 0..PwmPeriod
  /\ pwmDuty \in -50..(PwmPeriod + 50)
  /\ hwDuty \in 0..PwmPeriod
  /\ ctl = "set" /\ ~overwritten => reg = pwmDuty
  /\ InPass /\ pwmOpen /\ ~overwritten => hwDuty = savePwmDuty
  /\ HwFollowsDuty

\* A room that stays colder than what is asked for ends at full duty, and one
\* that stays warmer with the heater off, although the AWS thread always goes
\* first; a cleared duty that was never applied is the exception.
HeaterFollows ==
  /\ <>[](pwmOpen /\ Error < -1) => <>[](hwDuty = PwmPeriod)
  /\ <>[](pwmOpen /\ Error > 1 /\ ~overwritten) => <>[](hwDuty = 0)

\* A readable wish that lasts is applied and reported in the end, although any
\* delta may be lost, repeated or overtaken: as long as the service sees the
\* wrong value reported it publishes a delta with a version that is new to the
\* device (shadow_delta_callback, isValidShadowVersionUpdate).
WishApplied ==
  \A wish \in Wishes \ {Unreadable} :
    <>[](/\ desired = wish
         /\ aws \in {"yield", "update"}
         /\ client = "connected" /\ linkUp /\ subscribed)
      => <>[](temperatureDesired = UInt8(wish) /\ reported = UInt8(wish))

\* Whatever the values are, a report fits its 200 characters: every call
\* succeeds and none writes beyond the buffer (aws_iot_shadow_add_reported,
\* aws_iot_finalize_json_document).
ReportFits == \A doc \in Reports : doc.rc = "SUCCESS" /\ ~doc.past

\* The note of aws_iot_shadow_json_data.h asks for a buffer that holds the whole
\* document.  Then a document of both sections is complete and stays inside the
\* buffer, although the room is not counted again after a key; in a smaller
\* buffer the calls may write beyond the end and still return SUCCESS.
SectionLength(items) ==
  LET sum[n \in 0..Len(items)] ==
        IF n = 0 THEN 0 ELSE sum[n - 1] + items[n].key + items[n].value
  IN sum[Len(items)]
RoomyDocumentComplete ==
  \A r, d \in {<<i, j>> : i, j \in {[key |-> k, value |-> v] : k \in {4, 9}, v \in {2, 6}}} :
    LET length == 10 + 12 + 11 + SectionLength(r) + SectionLength(d) + 2 + 17 + 5 + 2
    IN \A size \in (length + 1)..(length + 12) :
         LET doc == Finalized(WithDesired(WithReported(Opened(size), r, size), d, size), 5, size)
         IN doc.rc = "SUCCESS" /\ ~doc.past /\ doc.len = length

\* A report that is sent is there to its last character, whatever its values:
\* no call writes beyond a buffer that is large enough, or ends a document early
\* and returns SUCCESS (aws_iot_shadow_json.c).
DocumentsFit == aws = "update" => ReportFits /\ RoomyDocumentComplete

=============================================================================
