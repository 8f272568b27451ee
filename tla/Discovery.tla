----------------------------- MODULE Discovery -----------------------------
(***************************************************************************)
(* From a USB bus to a handle: `list_devices`, `open` and `open_by_serial`  *)
(* of src/src/device.rs with `enumerate_rusb` and `open_rusb` of           *)
(* src/src/transport.rs, for several processes, while devices come and go. *)
(*                                                                         *)
(*   idle -> listing -> reopen -> claim -> session -> initialize -> open    *)
(*        -> closing -> idle                                               *)
(*                                                                         *)
(* The bus is read once for the addresses, once for each candidate's        *)
(* descriptors and once more for the selected address: each time it may     *)
(* have changed.  What `initialize` does is module Mpsse's: here a chip is  *)
(* ready or not.  A device with another VID:PID is no device to this code,  *)
(* wherever it looks.                                                       *)
(***************************************************************************)
EXTENDS Descriptors, Integers, FiniteSets

CONSTANTS
    Clients,    \* processes, or handles of one process
    Devices,    \* USB devices with the VID:PID of a BitBabbler
    Addresses,  \* bus numbers with device addresses
    Serials,    \* serial numbers one may ask for
    Strings,    \* what a string descriptor may hold
    Trim,       \* such a string without the white space around it
    ProductOf,  \* product string of a device
    SerialOf,   \* serial string of a device
    ConfigOf,   \* configuration descriptor of a device
    Faults,     \* the errors a USB request may fail with
    None        \* no device, nobody

Supported == {"White RNG", "Black RNG"}

ASSUME DiscoveryAssumption ==
    /\ ProductOf \in [Devices -> Strings \cup {NoIndex}]
    /\ SerialOf \in [Devices -> Strings \cup {NoIndex}]
    /\ None \notin Devices \cup Clients
    /\ {"only", "list", "none"} \cap Serials = {}

VARIABLES
    bus,      \* the device at each address
    used,     \* addresses that have been given to a device
    reused,   \* those that have been given again
    holder,   \* the client that has claimed the device's interface
    ready,    \* the devices whose chip is synchronised and set up
    pc,       \* how far each client's call is
    want,     \* what it asked for: a serial, the "only" device, or a "list"
    listed,   \* the candidate addresses on the list of the bus
    found,    \* the EnumeratedDevices so far, in the order of the bus list
    target,   \* the one selected, and DeviceInfo of an open handle
    actual,   \* the device its USB handle belongs to
    result    \* what the latest call returned

clientVars == <<pc, want, listed, found, target, actual, result>>
vars == <<bus, used, reused, holder, ready, clientVars>>

Labels == {"idle", "listing", "reopen", "claim", "session", "initialize", "open", "closing"}
Claimed == {"session", "initialize", "open", "closing"}
Requests == Serials \cup {"only", "list"}
Texts == {Trim[s] : s \in Strings}
Layouts == {EndpointConfig(ConfigOf[d]) : d \in Devices}
Entries == [at : Addresses, product : Texts, serial : Texts, endpoints : Layouts]
Results == {"none", "Ok", "NoDevice", "MultipleDevices", "UnsupportedProduct", "DeviceNotFound",
            "MissingSerial", "ProtocolViolation", "DeviceDisconnected", "DeviceBusy", "InitializationFailed"}
           \cup Faults

TypeOK ==
    /\ bus \in [Addresses -> Devices \cup {None}]
    /\ used \subseteq Addresses
    /\ reused \subseteq used
    /\ holder \in [Devices -> Clients \cup {None}]
    /\ ready \subseteq Devices
    /\ pc \in [Clients -> Labels]
    /\ want \in [Clients -> Requests \cup {"none"}]
    /\ listed \in [Clients -> SUBSET Addresses]
    /\ found \in [Clients -> Seq(Entries)]
    /\ target \in [Clients -> Entries \cup {None}]
    /\ actual \in [Clients -> Devices \cup {None}]
    /\ result \in [Clients -> Results]

----------------------------------------------------------------------------
(* The environment: devices come and go.  A device that goes takes its claim *)
(* and the state of its chip along, and handles to it are good for nothing   *)
(* from then on.                                                            *)

Attach(a, d) ==
    /\ bus[a] = None
    /\ \A b \in Addresses : bus[b] # d
    /\ bus' = [bus EXCEPT ![a] = d]
    /\ used' = used \cup {a}
    /\ reused' = IF a \in used THEN reused \cup {a} ELSE reused
    /\ UNCHANGED <<holder, ready, clientVars>>

Detach(a) ==
    /\ bus[a] # None
    /\ bus' = [bus EXCEPT ![a] = None]
    /\ holder' = [holder EXCEPT ![bus[a]] = None]
    /\ ready' = ready \ {bus[a]}
    /\ actual' = [c \in Clients |-> IF actual[c] = bus[a] THEN None ELSE actual[c]]
    /\ UNCHANGED <<used, reused, pc, want, listed, found, target, result>>

----------------------------------------------------------------------------
(* The client *)

(* Mutated: the claim is not released on the way out. *)
EndsClaimed(c, r) ==
    /\ pc' = [pc EXCEPT ![c] = "idle"]
    /\ result' = [result EXCEPT ![c] = r]
    /\ actual' = [actual EXCEPT ![c] = None]
    /\ want' = [want EXCEPT ![c] = "none"]
    /\ listed' = [listed EXCEPT ![c] = {}]
    /\ found' = [found EXCEPT ![c] = <<>>]
    /\ target' = [target EXCEPT ![c] = None]
    /\ UNCHANGED <<bus, used, reused, ready, holder>>

(* The call ends, or the handle it returned: every USB handle it had is      *)
(* dropped, and with it the claim; the chip stays as it is.                  *)
Ends(c, r) ==
    /\ pc' = [pc EXCEPT ![c] = "idle"]
    /\ result' = [result EXCEPT ![c] = r]
    /\ actual' = [actual EXCEPT ![c] = None]
    /\ holder' = [d \in Devices |-> IF holder[d] = c THEN None ELSE holder[d]]
    /\ want' = [want EXCEPT ![c] = "none"]
    /\ listed' = [listed EXCEPT ![c] = {}]
    /\ found' = [found EXCEPT ![c] = <<>>]
    /\ target' = [target EXCEPT ![c] = None]
    /\ UNCHANGED <<bus, used, reused, ready>>

(* open_by_serial with an empty serial asks nothing of the bus. *)
EmptySerial(c) == pc[c] = "idle" /\ Ends(c, "MissingSerial")

(* enumerate_rusb: a list of the bus. *)
Enumerate(c, request) ==
    /\ pc[c] = "idle"
    /\ pc' = [pc EXCEPT ![c] = "listing"]
    /\ want' = [want EXCEPT ![c] = request]
    /\ listed' = [listed EXCEPT ![c] = {a \in Addresses : bus[a] # None}]
    /\ found' = [found EXCEPT ![c] = <<>>]
    /\ result' = [result EXCEPT ![c] = "none"]
    /\ UNCHANGED <<bus, used, reused, holder, ready, target, actual>>

(* The list itself, or a request to any device on it, BitBabbler or not,     *)
(* fails: so does the whole enumeration.                                    *)
ListFails(c) == pc[c] = "listing" /\ \E e \in Faults : Ends(c, e)

(* What the descriptors of d are required to tell. *)
Readable(d) ==
    HasLayout(ConfigOf[d]) /\ Resolves(ProductOf[d], Trim) /\ Resolves(SerialOf[d], Trim)

AddressesOf(entries) == {entries[i].at : i \in DOMAIN entries}

(* Mutated: candidates that have gone or cannot be read are passed over. *)
PendingReadable(c) ==
    {a \in listed[c] \ AddressesOf(found[c]) : bus[a] # None /\ Readable(bus[a])}

(* The candidates still to be described. *)
Pending(c) == listed[c] \ AddressesOf(found[c])

Entry(a, d) ==
    [at |-> a, product |-> Trim[ProductOf[d]], serial |-> Trim[SerialOf[d]],
     endpoints |-> EndpointConfig(ConfigOf[d])]

(* The next candidate's endpoints, product and serial are read; one that has *)
(* gone, or does not tell them, ends the enumeration.                       *)
Describe(c, a) ==
    /\ pc[c] = "listing"
    /\ a \in Pending(c)
    /\ \/ bus[a] = None /\ Ends(c, "DeviceDisconnected")
       \/ bus[a] # None /\ ~ Readable(bus[a]) /\ Ends(c, "ProtocolViolation")
       \/ /\ bus[a] # None
          /\ Readable(bus[a])
          /\ found' = [found EXCEPT ![c] = Append(@, Entry(a, bus[a]))]
          /\ UNCHANGED <<bus, used, reused, holder, ready, pc, want, listed, target, actual, result>>

(* classify_product *)
Unsupported(entry) == entry.product \notin Supported

Selected(c, entry) ==
    /\ pc' = [pc EXCEPT ![c] = "reopen"]
    /\ target' = [target EXCEPT ![c] = entry]
    /\ UNCHANGED <<bus, used, reused, holder, ready, want, listed, found, actual, result>>

(* list_devices, and open of the only device: any unsupported one fails it.  *)
SelectOnly(c) ==
    LET all == found[c]
        unsupported == \E i \in 1 .. Len(all) : Unsupported(all[i])
    IN /\ pc[c] = "listing"
       /\ Pending(c) = {}
       /\ want[c] \in {"only", "list"}
       /\ \/ unsupported /\ Ends(c, "UnsupportedProduct")
          \/ ~ unsupported /\ want[c] = "list" /\ Ends(c, "Ok")
          \/ ~ unsupported /\ want[c] = "only" /\ Len(all) = 0 /\ Ends(c, "NoDevice")
          \/ ~ unsupported /\ want[c] = "only" /\ Len(all) > 1 /\ Ends(c, "MultipleDevices")
          \/ ~ unsupported /\ want[c] = "only" /\ Len(all) = 1 /\ Selected(c, all[1])

(* open_by_serial: the first supported device with the serial, unless an     *)
(* unsupported one with it comes before.                                    *)
SelectSerial(c) ==
    LET all == found[c]
        matches == {i \in 1 .. Len(all) : all[i].serial = want[c]}
        First(i) == i \in matches /\ \A j \in matches : i <= j
    IN /\ pc[c] = "listing"
       /\ Pending(c) = {}
       /\ want[c] \in Serials
       /\ \/ matches = {} /\ Ends(c, "DeviceNotFound")
          \/ \E i \in matches : First(i) /\ Unsupported(all[i]) /\ Ends(c, "UnsupportedProduct")
          \/ \E i \in matches : First(i) /\ ~ Unsupported(all[i]) /\ Selected(c, all[i])

(* Mutated: the endpoints are not compared with those listed. *)
ReopenUnchecked(c) ==
    LET there == bus[target[c].at] IN
    /\ pc[c] = "reopen"
    /\ there # None
    /\ holder[there] = None
    /\ pc' = [pc EXCEPT ![c] = "claim"]
    /\ actual' = [actual EXCEPT ![c] = there]
    /\ listed' = [listed EXCEPT ![c] = {}]
    /\ found' = [found EXCEPT ![c] = <<>>]
    /\ UNCHANGED <<bus, used, reused, holder, ready, want, target, result>>

(* open_rusb up to the claim: the device now at the selected address, if it *)
(* has the same endpoints, is opened and configured; the configuration of a *)
(* device another handle has claimed cannot be set.  The list is done with.  *)
Reopen(c) ==
    LET there == bus[target[c].at]
        unchanged == /\ HasLayout(ConfigOf[there])
                     /\ EndpointConfig(ConfigOf[there]) = target[c].endpoints
    IN /\ pc[c] = "reopen"
       /\ \/ \E e \in Faults : Ends(c, e)
          \/ there = None /\ Ends(c, "DeviceDisconnected")
          \/ there # None /\ ~ unchanged /\ Ends(c, "ProtocolViolation")
          \/ there # None /\ unchanged /\ holder[there] # None /\ Ends(c, "DeviceBusy")
          \/ /\ there # None /\ unchanged /\ holder[there] = None
             /\ pc' = [pc EXCEPT ![c] = "claim"]
             /\ actual' = [actual EXCEPT ![c] = there]
             /\ listed' = [listed EXCEPT ![c] = {}]
             /\ found' = [found EXCEPT ![c] = <<>>]
             /\ UNCHANGED <<bus, used, reused, holder, ready, want, target, result>>

Claim(c) ==
    /\ pc[c] = "claim"
    /\ \/ actual[c] = None /\ Ends(c, "DeviceDisconnected")
       \/ \E e \in Faults : Ends(c, e)
       \/ actual[c] # None /\ holder[actual[c]] # None /\ Ends(c, "DeviceBusy")
       \/ /\ actual[c] # None /\ holder[actual[c]] = None
          /\ holder' = [holder EXCEPT ![actual[c]] = c]
          /\ pc' = [pc EXCEPT ![c] = "session"]
          /\ UNCHANGED <<bus, used, reused, ready, want, listed, found, target, actual, result>>

(* FtdiSession::new refuses the packet size, or `initialize` begins, with a  *)
(* reset of the chip.                                                       *)
StartSession(c) ==
    LET supported == SupportedPacket(target[c].endpoints.max_packet) IN
    /\ pc[c] = "session"
    /\ \/ ~ supported /\ Ends(c, "ProtocolViolation")
       \/ /\ supported
          /\ pc' = [pc EXCEPT ![c] = "initialize"]
          /\ ready' = ready \ {actual[c]}
          /\ UNCHANGED <<bus, used, reused, holder, want, listed, found, target, actual, result>>

(* `initialize` ends (Mpsse): the handle exists only when it succeeds. *)
Initialize(c) ==
    /\ pc[c] = "initialize"
    /\ \/ \E e \in {"InitializationFailed", "DeviceDisconnected"} \cup Faults : Ends(c, e)
       \/ /\ actual[c] # None
          /\ pc' = [pc EXCEPT ![c] = "open"]
          /\ result' = [result EXCEPT ![c] = "Ok"]
          /\ ready' = ready \cup {actual[c]}
          /\ UNCHANGED <<bus, used, reused, holder, want, listed, found, target, actual>>

(* Mutated: the claim is given up first, and the reset, which needs none,    *)
(* comes after it.                                                          *)
DropResetsLast(c) ==
    \/ /\ pc[c] = "open"
       /\ pc' = [pc EXCEPT ![c] = "closing"]
       /\ holder' = [d \in Devices |-> IF holder[d] = c THEN None ELSE holder[d]]
       /\ UNCHANGED <<bus, used, reused, ready, want, listed, found, target, actual, result>>
    \/ /\ pc[c] = "closing"
       /\ ready' = ready \ {actual[c]}
       /\ UNCHANGED <<bus, used, reused, holder, clientVars>>

(* Drop: the chip is taken out of MPSSE mode if it can be reached, *)
DropResets(c) ==
    /\ pc[c] = "open"
    /\ pc' = [pc EXCEPT ![c] = "closing"]
    /\ ready' \in {ready, ready \ {actual[c]}}
    /\ UNCHANGED <<bus, used, reused, holder, want, listed, found, target, actual, result>>

(* and then the interface is released and the USB handle closed. *)
DropReleases(c) == pc[c] = "closing" /\ Ends(c, "none")

(* The process ends, at any step of it. *)
ClientDies(c) == pc[c] # "idle" /\ Ends(c, "none")

Init ==
    /\ bus \in [Addresses -> Devices \cup {None}]
    /\ \A a, b \in Addresses : bus[a] = bus[b] => a = b \/ bus[a] = None
    /\ used = {a \in Addresses : bus[a] # None}
    /\ reused = {}
    /\ holder = [d \in Devices |-> None]
    /\ ready = {}
    /\ pc = [c \in Clients |-> "idle"]
    /\ want = [c \in Clients |-> "none"]
    /\ listed = [c \in Clients |-> {}]
    /\ found = [c \in Clients |-> <<>>]
    /\ target = [c \in Clients |-> None]
    /\ actual = [c \in Clients |-> None]
    /\ result = [c \in Clients |-> "none"]

ClientStep(c) ==
    \/ EmptySerial(c)
    \/ \E request \in Requests : Enumerate(c, request)
    \/ ListFails(c)
    \/ \E a \in Addresses : Describe(c, a)
    \/ SelectOnly(c)
    \/ SelectSerial(c)
    \/ Reopen(c)
    \/ Claim(c)
    \/ StartSession(c)
    \/ Initialize(c)
    \/ DropResets(c)
    \/ DropReleases(c)
    \/ ClientDies(c)

Next ==
    \/ \E a \in Addresses : Detach(a) \/ \E d \in Devices : Attach(a, d)
    \/ \E c \in Clients : ClientStep(c)

Spec == Init /\ [][Next]_vars

----------------------------------------------------------------------------
(* Correctness. *)

(* A claim belongs to a call that is still initializing, to an open handle  *)
(* or to one being dropped, and to the very device, whichever way earlier    *)
(* calls ended: no failed open and no dead client keeps a device from the    *)
(* others; and a handle that can still reach its device owns it, so that no  *)
(* two handles drive one chip.                                              *)
ClaimsMatchHandles ==
    \A d \in Devices, c \in Clients :
        holder[d] = c <=> pc[c] \in Claimed /\ actual[c] = d

(* The chip behind an open handle stays as its `initialize` left it: neither *)
(* the initialization another client attempts nor the reset with which      *)
(* another handle is dropped reaches it, though a reset needs no claim.      *)
ReadyWhenOpen ==
    \A c \in Clients : pc[c] = "open" /\ actual[c] # None => actual[c] \in ready

(* The entry chosen is the only one, or the first with the serial. *)
ChosenFrom(entries, request, chosen) ==
    \E i \in DOMAIN entries :
        /\ entries[i] = chosen
        /\ request = "only" => Len(entries) = 1
        /\ request \in Serials => \A j \in 1 .. i - 1 : entries[j].serial # request

(* One device is selected only with all of the list in view: every candidate *)
(* on it has told what it is, none having been passed over as unreadable;   *)
(* the only one is the only one, and one chosen by its serial comes before   *)
(* every other with that serial, supported or not.                          *)
SelectedFromAll ==
    \A c \in Clients : pc[c] = "reopen" =>
        /\ listed[c] = AddressesOf(found[c])
        /\ ChosenFrom(found[c], want[c], target[c])

(* What d tells of itself is what the entry says. *)
Describes(entry, d) == entry = Entry(entry.at, d)

(* An open handle's DeviceInfo is that of a supported device and of the one  *)
(* asked for; as long as its address has not been given to a second device, *)
(* it describes the device the handle drives, whatever else came and went    *)
(* between the listing, the reading of the strings and the reopening; and    *)
(* whatever the address was given to, the endpoints used are that device's.  *)
OpenedAsAsked ==
    \A c \in Clients : pc[c] = "open" =>
        /\ target[c].product \in Supported
        /\ want[c] \in Serials => target[c].serial = want[c]
        /\ actual[c] # None /\ target[c].at \notin reused => Describes(target[c], actual[c])
        /\ actual[c] # None => target[c].endpoints = EndpointConfig(ConfigOf[actual[c]])

(* The key of an enumerated device reopens the same physical device         *)
(* (transport.rs, DeviceKey): the serial behind a handle is the one listed. *)
ReopenedIsEnumerated ==
    \A c \in Clients :
        pc[c] = "open" /\ actual[c] # None => Trim[SerialOf[actual[c]]] = target[c].serial
=============================================================================
