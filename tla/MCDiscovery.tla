---------------------------- MODULE MCDiscovery ----------------------------
(* Discovery for TLC: two supported devices with different serials and      *)
(* endpoints, an unsupported one with the serial of the first, one that does *)
(* not tell its serial, and one with packets of an unsupported size.         *)
EXTENDS Discovery, TLC

CONSTANTS white, black, clone, mute, small, one, two, left, right

AllDevices == {white, black, clone, mute, small}
BothClients == {one, two}
OneClient == {one}
BothAddresses == {left, right}
OneSerial == {"s1"}
SomeFaults == {"PermissionDenied"}

SomeStrings == {"White RNG", "Black RNG", "Other", "s1", " s2 ", "  "}
SomeTrim == [s \in SomeStrings |-> CASE s = " s2 " -> "s2" [] s = "  " -> Blank [] OTHER -> s]

SomeProducts ==
    (white :> "White RNG") @@ (black :> "Black RNG") @@ (clone :> "Other") @@
    (mute :> "White RNG") @@ (small :> "Black RNG")
SomeSerials ==
    (white :> "s1") @@ (black :> " s2 ") @@ (clone :> "s1") @@ (mute :> "  ") @@ (small :> " s2 ")

(* Interface 0 in its setting 0 comes after another of its settings. *)
Bulk(in, size, address) == [in |-> in, bulk |-> TRUE, size |-> size, address |-> address]
Packets(size) ==
    [number |-> 1, alternates |->
        << [interface |-> 0, setting |-> 1, endpoints |-> <<>>],
           [interface |-> 0, setting |-> 0,
            endpoints |-> << Bulk(TRUE, size, 129), Bulk(FALSE, size, 2) >>] >>]

SomeConfigs ==
    (white :> Packets(64)) @@ (black :> Packets(512)) @@ (clone :> Packets(64)) @@
    (mute :> Packets(64)) @@ (small :> Packets(32))
LikeConfigs == [d \in AllDevices |-> Packets(64)]

(* The two clients are alike, and so are the addresses. *)
Symmetry == Permutations(BothClients) \cup Permutations(BothAddresses)

(* States that differ in what an earlier call returned only: nothing the      *)
(* clients do, and no property of the runs, depends on it.                   *)
ButResults == <<bus, used, reused, holder, ready, pc, want, listed, found, target, actual>>
============================================================================
