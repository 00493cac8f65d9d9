---------------------------- MODULE MCSampleDrain ----------------------------
(* One pod for TLC, with the clocks of deployment-api.yaml.                    *)
EXTENDS SampleDrain
=============================================================================
