---------------------------- MODULE MCThermostat ----------------------------
(* An instance of Thermostat for TLC.                                        *)
EXTENDS ThermostatProperties, TLC

\* Two wishes are applied as 0 and 1 degree, and the readings are far enough
\* from them on either side for each of the four thresholds.
MCReadings == {1, 2, 7}
MCUnreadable == -1

=============================================================================
