---------------------------- MODULE Descriptors ----------------------------
(***************************************************************************)
(* What a BitBabbler has to say of itself before it is opened: the endpoint *)
(* layout (`read_endpoint_config`), the strings (`resolve_required_string`) *)
(* and the packet size (`expected_modem_status`), of src/src/transport.rs   *)
(* and src/src/protocol.rs.                                                *)
(*                                                                         *)
(* A configuration is its number with the alternate settings of all its    *)
(* interfaces, in the order of the descriptors.                             *)
(***************************************************************************)
EXTENDS Naturals, Sequences

NoIndex == "no index"   \* the device names no such string
Blank == ""             \* a string of which trimming leaves nothing

(* The alternate setting the library drives: interface 0, setting 0. *)
Driven(alt) == alt.interface = 0 /\ alt.setting = 0

FirstDriven(config) ==
    LET driven == {i \in DOMAIN config.alternates : Driven(config.alternates[i])}
    IN config.alternates[CHOOSE i \in driven : \A j \in driven : i <= j]

(* read_endpoint_config succeeds: exactly a bulk IN and a bulk OUT endpoint, *)
(* in this order, with packets of one size that hold more than the status.  *)
HasLayout(config) ==
    LET eps == FirstDriven(config).endpoints
    IN /\ config.number = 1
       /\ \E i \in DOMAIN config.alternates : Driven(config.alternates[i])
       /\ Len(eps) = 2
       /\ eps[1].in /\ ~ eps[2].in
       /\ eps[1].bulk /\ eps[2].bulk
       /\ eps[1].size > 2
       /\ eps[2].size = eps[1].size

(* EndpointConfig *)
EndpointConfig(config) ==
    LET eps == FirstDriven(config).endpoints
    IN [ep_in |-> eps[1].address, ep_out |-> eps[2].address, max_packet |-> eps[1].size]

(* A string the device must have: named, and not only white space. *)
Resolves(string, trim) == string # NoIndex /\ trim[string] # Blank

(* FtdiSession::new *)
SupportedPacket(size) == size \in {64, 512}
=============================================================================
