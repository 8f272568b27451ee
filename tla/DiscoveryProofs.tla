-------------------------- MODULE DiscoveryProofs --------------------------
(* Proofs about opening devices, for any number of clients, devices and     *)
(* addresses, however addresses are reused.                                *)
EXTENDS Discovery, TLAPS

(* Beside its type a state has a selected device whenever one is opened. *)
Shape ==
    /\ TypeOK
    /\ \A c \in Clients : pc[c] = "reopen" => target[c] \in Entries

ClaimInv == Shape /\ ClaimsMatchHandles

(* A call that ends leaves nothing of the wrong type. *)
LEMMA EndsType ==
    ASSUME TypeOK, NEW c \in Clients, NEW r \in Results, Ends(c, r)
    PROVE  TypeOK' /\ pc' = [pc EXCEPT ![c] = "idle"] /\ target' = [target EXCEPT ![c] = None]
<1>1. holder' \in [Devices -> Clients \cup {None}]
  BY DEF Ends, TypeOK
<1>2. /\ pc' \in [Clients -> Labels] /\ result' \in [Clients -> Results]
      /\ actual' \in [Clients -> Devices \cup {None}]
      /\ listed' \in [Clients -> SUBSET Addresses]
      /\ want' \in [Clients -> Requests \cup {"none"}]
      /\ target' \in [Clients -> Entries \cup {None}]
  BY DEF Ends, TypeOK, Labels
<1>3. found' \in [Clients -> Seq(Entries)]
  <2>1. <<>> \in Seq(Entries)
    OBVIOUS
  <2> QED
    BY <2>1 DEF Ends, TypeOK
<1> QED
  BY <1>1, <1>2, <1>3 DEF Ends, TypeOK

(* It keeps the shape, and gives up whatever its client had claimed. *)
LEMMA EndsClaims ==
    ASSUME ClaimInv, NEW c \in Clients, NEW r \in Results, Ends(c, r)
    PROVE  ClaimInv'
<1>1. TypeOK' /\ pc' = [pc EXCEPT ![c] = "idle"] /\ target' = [target EXCEPT ![c] = None]
  BY EndsType DEF ClaimInv, Shape
<1>2. Shape'
  BY <1>1 DEF ClaimInv, Shape, TypeOK
<1>3. ASSUME NEW d \in Devices, NEW b \in Clients
      PROVE  holder'[d] = b <=> pc'[b] \in Claimed /\ actual'[b] = d
  <2>1. holder'[d] = IF holder[d] = c THEN None ELSE holder[d]
    BY DEF Ends
  <2>2. b # None
    BY DiscoveryAssumption
  <2>3. holder[d] = b <=> pc[b] \in Claimed /\ actual[b] = d
    BY DEF ClaimInv, ClaimsMatchHandles
  <2>4. CASE b = c
    BY <1>1, <2>1, <2>2, <2>4 DEF ClaimInv, Shape, TypeOK, Claimed
  <2>5. CASE b # c
    <3>1. pc'[b] = pc[b] /\ actual'[b] = actual[b]
      BY <2>5 DEF Ends, ClaimInv, Shape, TypeOK
    <3> QED
      BY <2>1, <2>2, <2>3, <2>5, <3>1
  <2> QED
    BY <2>4, <2>5
<1> QED
  BY <1>2, <1>3 DEF ClaimInv, ClaimsMatchHandles

(* A step that moves one client between steps that hold no claim. *)
LEMMA UnclaimedStep ==
    ASSUME ClaimInv, Shape', NEW c \in Clients,
           pc[c] \notin Claimed,
           NEW label, label \notin Claimed,
           pc' = [pc EXCEPT ![c] = label],
           holder' = holder,
           \A b \in Clients : b # c => actual'[b] = actual[b]
    PROVE  ClaimInv'
<1>1. ASSUME NEW d \in Devices, NEW b \in Clients
      PROVE  holder'[d] = b <=> pc'[b] \in Claimed /\ actual'[b] = d
  <2>1. holder[d] = b <=> pc[b] \in Claimed /\ actual[b] = d
    BY DEF ClaimInv, ClaimsMatchHandles
  <2>2. pc'[c] = label /\ (b # c => pc'[b] = pc[b])
    BY DEF ClaimInv, Shape, TypeOK
  <2> QED
    BY <2>1, <2>2
<1> QED
  BY <1>1 DEF ClaimInv, ClaimsMatchHandles

(* Selecting one of the devices found. *)
LEMMA SelectedType ==
    ASSUME ClaimInv, NEW c \in Clients, pc[c] = "listing", NEW i \in 1 .. Len(found[c]),
           Selected(c, found[c][i])
    PROVE  ClaimInv'
<1>1. found[c][i] \in Entries
  BY DEF ClaimInv, Shape, TypeOK
<1>2. TypeOK'
  BY <1>1 DEF Selected, ClaimInv, Shape, TypeOK, Labels
<1>3. \A b \in Clients : pc'[b] = "reopen" => target'[b] \in Entries
  BY <1>1 DEF Selected, ClaimInv, Shape, TypeOK
<1>4. Shape'
  BY <1>2, <1>3 DEF Shape
<1> QED
  BY <1>4, UnclaimedStep DEF Selected, Claimed

(* Every way a call of this module may end is one of Results. *)
LEMMA EndResults ==
    /\ Faults \subseteq Results
    /\ {"none", "Ok", "NoDevice", "MultipleDevices", "UnsupportedProduct", "DeviceNotFound",
        "MissingSerial", "ProtocolViolation", "DeviceDisconnected", "DeviceBusy",
        "InitializationFailed"}
       \subseteq Results
BY DEF Results

(* An entry of the list, whatever string descriptors may hold. *)
LEMMA EntryType ==
    ASSUME NEW a \in Addresses, NEW d \in Devices, Readable(d)
    PROVE  Entry(a, d) \in Entries
<1>1. ProductOf[d] \in Strings /\ SerialOf[d] \in Strings
  BY DiscoveryAssumption DEF Readable, Resolves
<1> QED
  BY <1>1 DEF Entry, Entries, Texts, Layouts

(* Every step of a client keeps claims and handles together. *)
LEMMA ClientStepClaims ==
    ASSUME ClaimInv, NEW c \in Clients, ClientStep(c)
    PROVE  ClaimInv'
<1> USE DiscoveryAssumption
<1>0. \A r \in Results : Ends(c, r) => ClaimInv'
  BY EndsClaims
<1>a. TypeOK /\ pc \in [Clients -> Labels] /\ actual \in [Clients -> Devices \cup {None}]
  BY DEF ClaimInv, Shape, TypeOK
<1>1. ASSUME NEW request \in Requests, Enumerate(c, request)
      PROVE  ClaimInv'
  <2>1. <<>> \in Seq(Entries)
    OBVIOUS
  <2>2. TypeOK'
    BY <1>1, <1>a, <2>1 DEF Enumerate, TypeOK, Labels, Results
  <2>3. Shape'
    BY <1>1, <1>a, <2>2 DEF Enumerate, ClaimInv, Shape
  <2> QED
    BY <1>1, <2>3, UnclaimedStep DEF Enumerate, Claimed
<1>2. ASSUME NEW a \in Addresses, Describe(c, a)
      PROVE  ClaimInv'
  <2>1. CASE \E r \in Results : Ends(c, r)
    BY <1>0, <2>1
  <2>2. CASE /\ bus[a] # None /\ Readable(bus[a])
             /\ found' = [found EXCEPT ![c] = Append(@, Entry(a, bus[a]))]
             /\ UNCHANGED <<bus, used, reused, holder, ready, pc, want, listed, target, actual, result>>
    <3>1. bus[a] \in Devices
      BY <2>2, <1>a DEF TypeOK
    <3>2. Entry(a, bus[a]) \in Entries
      BY <2>2, <3>1, EntryType
    <3>4. Append(found[c], Entry(a, bus[a])) \in Seq(Entries)
      BY <1>a, <3>2 DEF TypeOK
    <3>5. found' \in [Clients -> Seq(Entries)]
      BY <1>a, <2>2, <3>4 DEF TypeOK
    <3>7. Shape'
      BY <2>2, <3>5 DEF ClaimInv, Shape, TypeOK
    <3> QED
      BY <2>2, <3>7 DEF ClaimInv, ClaimsMatchHandles
  <2> QED
    BY <1>2, <2>1, <2>2, EndResults DEF Describe
<1>3. CASE SelectOnly(c)
  <2>1. CASE \E r \in Results : Ends(c, r)
    BY <1>0, <2>1
  <2>2. CASE Len(found[c]) = 1 /\ Selected(c, found[c][1])
    BY <1>3, <2>2, SelectedType DEF SelectOnly
  <2> QED
    BY <1>3, <2>1, <2>2, EndResults DEF SelectOnly
<1>4. CASE SelectSerial(c)
  <2>1. CASE \E r \in Results : Ends(c, r)
    BY <1>0, <2>1
  <2>2. CASE \E i \in 1 .. Len(found[c]) : Selected(c, found[c][i])
    BY <1>4, <2>2, SelectedType DEF SelectSerial
  <2> QED
    BY <1>4, <2>1, <2>2, EndResults DEF SelectSerial
<1>5. CASE Reopen(c)
  <2>1. CASE \E r \in Results : Ends(c, r)
    BY <1>0, <2>1
  <2>2. CASE /\ bus[target[c].at] # None
             /\ pc' = [pc EXCEPT ![c] = "claim"]
             /\ actual' = [actual EXCEPT ![c] = bus[target[c].at]]
             /\ listed' = [listed EXCEPT ![c] = {}]
             /\ found' = [found EXCEPT ![c] = <<>>]
             /\ UNCHANGED <<bus, used, reused, holder, ready, want, target, result>>
    <3>1. target[c].at \in Addresses
      BY <1>5 DEF Reopen, ClaimInv, Shape, Entries
    <3>2. <<>> \in Seq(Entries)
      OBVIOUS
    <3>3. TypeOK'
      BY <2>2, <3>1, <3>2, <1>a DEF TypeOK, Labels
    <3>4. Shape'
      BY <2>2, <3>3, <1>a DEF ClaimInv, Shape
    <3> QED
      BY <1>5, <2>2, <3>4, <1>a, UnclaimedStep DEF Reopen, Claimed
  <2> QED
    BY <1>5, <2>1, <2>2, EndResults DEF Reopen
<1>6. CASE Claim(c)
  <2>1. CASE \E r \in Results : Ends(c, r)
    BY <1>0, <2>1
  <2>2. CASE /\ actual[c] # None /\ holder[actual[c]] = None
             /\ holder' = [holder EXCEPT ![actual[c]] = c]
             /\ pc' = [pc EXCEPT ![c] = "session"]
             /\ UNCHANGED <<bus, used, reused, ready, want, listed, found, target, actual, result>>
    <3>1. actual[c] \in Devices
      BY <1>a, <2>2
    <3>2. Shape'
      BY <2>2, <3>1 DEF ClaimInv, Shape, TypeOK, Labels
    <3>3. ASSUME NEW d \in Devices, NEW b \in Clients
          PROVE  holder'[d] = b <=> pc'[b] \in Claimed /\ actual'[b] = d
      <4>1. holder[d] = b <=> pc[b] \in Claimed /\ actual[b] = d
        BY DEF ClaimInv, ClaimsMatchHandles
      <4>2. holder'[d] = IF d = actual[c] THEN c ELSE holder[d]
        BY <2>2, <3>1 DEF ClaimInv, Shape, TypeOK
      <4>3. pc[c] = "claim" /\ pc'[c] = "session" /\ (b # c => pc'[b] = pc[b])
        BY <1>6, <1>a, <2>2 DEF Claim
      <4> QED
        BY <2>2, <4>1, <4>2, <4>3 DEF Claimed
    <3> QED
      BY <3>2, <3>3 DEF ClaimInv, ClaimsMatchHandles
  <2> QED
    BY <1>6, <2>1, <2>2, EndResults DEF Claim
<1>7. ASSUME NEW label \in Claimed, pc[c] \in Claimed,
             pc' = [pc EXCEPT ![c] = label],
             UNCHANGED <<bus, used, reused, holder, want, listed, found, target, actual>>,
             ready' \subseteq Devices, result' \in [Clients -> Results]
      PROVE  ClaimInv'
  <2>1. Shape'
    BY <1>7 DEF ClaimInv, Shape, TypeOK, Labels, Claimed
  <2>2. \A b \in Clients : pc'[b] \in Claimed <=> pc[b] \in Claimed
    BY <1>7, <1>a
  <2> QED
    BY <1>7, <2>1, <2>2 DEF ClaimInv, ClaimsMatchHandles
<1>8. CASE StartSession(c) \/ Initialize(c) \/ DropResets(c)
  <2>1. CASE \E r \in Results : Ends(c, r)
    BY <1>0, <2>1
  <2>2. /\ ready \subseteq Devices /\ result \in [Clients -> Results]
        /\ [result EXCEPT ![c] = "Ok"] \in [Clients -> Results]
        /\ {"session", "initialize", "open", "closing"} = Claimed
    BY EndResults DEF ClaimInv, Shape, TypeOK, Claimed
  <2>3. CASE StartSession(c) /\ ~ \E r \in Results : Ends(c, r)
    BY <1>7, <2>2, <2>3, EndResults DEF StartSession
  <2>4. CASE Initialize(c) /\ ~ \E r \in Results : Ends(c, r)
    BY <1>7, <1>a, <2>2, <2>4, EndResults DEF Initialize
  <2>5. CASE DropResets(c)
    <3>1. ready' \subseteq Devices
      BY <2>2, <2>5 DEF DropResets
    <3> QED
      BY <1>7, <2>2, <2>5, <3>1 DEF DropResets
  <2> QED
    BY <1>8, <2>1, <2>3, <2>4, <2>5
<1>9. CASE EmptySerial(c) \/ ListFails(c) \/ DropReleases(c) \/ ClientDies(c)
  BY <1>0, <1>9, EndResults DEF EmptySerial, ListFails, DropReleases, ClientDies
<1> QED
  BY <1>1, <1>2, <1>3, <1>4, <1>5, <1>6, <1>8, <1>9 DEF ClientStep

(* A device that goes frees its claim and spoils the handles to it alike.    *)
LEMMA BusStepClaims ==
    ASSUME ClaimInv, NEW a \in Addresses, Detach(a) \/ \E d \in Devices : Attach(a, d)
    PROVE  ClaimInv'
<1> USE DiscoveryAssumption
<1>1. CASE Detach(a)
  <2>1. bus[a] \in Devices
    BY <1>1 DEF Detach, ClaimInv, Shape, TypeOK
  <2>2. Shape'
    BY <1>1, <2>1 DEF Detach, ClaimInv, Shape, TypeOK
  <2>3. ASSUME NEW d \in Devices, NEW b \in Clients
        PROVE  holder'[d] = b <=> pc'[b] \in Claimed /\ actual'[b] = d
    <3>1. holder[d] = b <=> pc[b] \in Claimed /\ actual[b] = d
      BY DEF ClaimInv, ClaimsMatchHandles
    <3>2. holder'[d] = IF d = bus[a] THEN None ELSE holder[d]
      BY <1>1, <2>1 DEF Detach, ClaimInv, Shape, TypeOK
    <3>3. actual'[b] = IF actual[b] = bus[a] THEN None ELSE actual[b]
      BY <1>1 DEF Detach
    <3> QED
      BY <1>1, <3>1, <3>2, <3>3 DEF Detach
  <2> QED
    BY <2>2, <2>3 DEF ClaimInv, ClaimsMatchHandles
<1>2. ASSUME NEW d \in Devices, Attach(a, d)
      PROVE  ClaimInv'
  BY <1>2 DEF Attach, clientVars, ClaimInv, Shape, TypeOK, ClaimsMatchHandles
<1> QED
  BY <1>1, <1>2

(* At first there are neither. *)
LEMMA InitClaims ==
    ASSUME Init
    PROVE  ClaimInv
<1>1. <<>> \in Seq(Entries)
  OBVIOUS
<1>2. TypeOK
  BY <1>1 DEF Init, TypeOK, Labels, Requests, Results
<1> QED
  BY <1>2, DiscoveryAssumption DEF Init, ClaimInv, Shape, ClaimsMatchHandles, Claimed

(* So claims match handles in every behaviour. *)
LEMMA ClaimInvariant == Spec => []ClaimInv
<1>1. ClaimInv /\ [Next]_vars => ClaimInv'
  <2> SUFFICES ASSUME ClaimInv, [Next]_vars PROVE ClaimInv'
    OBVIOUS
  <2>1. CASE UNCHANGED vars
    BY <2>1 DEF vars, clientVars, ClaimInv, Shape, TypeOK, ClaimsMatchHandles
  <2> QED
    BY <2>1, ClientStepClaims, BusStepClaims DEF Next
<1> QED
  BY <1>1, InitClaims, PTL DEF Spec

(* Whatever comes and goes on the bus and wherever a call fails or a client  *)
(* dies, a device is claimed exactly by the handle that drives it: no claim *)
(* leaks and no two handles drive one chip (open_enumerated, Drop).         *)
THEOREM ClaimsAreHandles == Spec => [](TypeOK /\ ClaimsMatchHandles)
<1>1. ClaimInv => TypeOK /\ ClaimsMatchHandles
  BY DEF ClaimInv, Shape
<1> QED
  BY <1>1, ClaimInvariant, PTL
----------------------------------------------------------------------------
(* What is known of an entry: its address was once a device's, and while it  *)
(* has not been given again, a device that is there is the one described.    *)
Known(entry) ==
    /\ entry.at \in used
    /\ entry.at \notin reused /\ bus[entry.at] # None => Describes(entry, bus[entry.at])

AfterSelection == {"reopen", "claim", "session", "initialize", "open", "closing"}

(* The endpoints listed are those of the device reopened. *)
SameEndpoints(entry, d) == entry.endpoints = EndpointConfig(ConfigOf[d])

(* Every entry listed or selected is known; the one selected was asked for,  *)
(* and it describes the device reopened for it.                             *)
Asked ==
    /\ \A a \in Addresses : bus[a] # None => a \in used
    /\ \A c \in Clients : \A i \in 1 .. Len(found[c]) : Known(found[c][i])
    /\ \A c \in Clients : pc[c] \in AfterSelection =>
          /\ target[c] \in Entries
          /\ Known(target[c])
          /\ ~ Unsupported(target[c])
          /\ want[c] \in Serials => target[c].serial = want[c]
          /\ pc[c] # "reopen" /\ actual[c] # None /\ target[c].at \notin reused
                => Describes(target[c], actual[c])
          /\ pc[c] # "reopen" /\ actual[c] # None => SameEndpoints(target[c], actual[c])

AskInv == TypeOK /\ Asked

(* A step of one client that leaves the bus alone: only what it does to that *)
(* client's own listing and selection is to be looked at.                    *)
LEMMA OneClientAsks ==
    ASSUME AskInv, NEW c \in Clients,
           bus' = bus, used' = used, reused' = reused,
           \A b \in Clients : b # c =>
               pc'[b] = pc[b] /\ want'[b] = want[b] /\ found'[b] = found[b]
               /\ target'[b] = target[b] /\ actual'[b] = actual[b],
           \A i \in 1 .. Len(found'[c]) : Known(found'[c][i]),
           pc'[c] \in AfterSelection =>
               /\ target'[c] \in Entries
               /\ Known(target'[c])
               /\ ~ Unsupported(target'[c])
               /\ want'[c] \in Serials => target'[c].serial = want'[c]
               /\ pc'[c] # "reopen" /\ actual'[c] # None /\ target'[c].at \notin reused
                     => Describes(target'[c], actual'[c])
               /\ pc'[c] # "reopen" /\ actual'[c] # None => SameEndpoints(target'[c], actual'[c])
    PROVE  Asked'
<1>1. \A b \in Clients : \A i \in 1 .. Len(found'[b]) : Known(found[b][i])'
  <2> SUFFICES ASSUME NEW b \in Clients, NEW i \in 1 .. Len(found'[b])
               PROVE  Known(found[b][i])'
    OBVIOUS
  <2>1. Known(found'[b][i])
    BY DEF AskInv, Asked
  <2> QED
    BY <2>1 DEF Known, Describes
<1>2. \A b \in Clients : pc'[b] \in AfterSelection =>
          /\ target'[b] \in Entries
          /\ Known(target[b])'
          /\ ~ Unsupported(target'[b])
          /\ want'[b] \in Serials => target'[b].serial = want'[b]
          /\ pc'[b] # "reopen" /\ actual'[b] # None /\ target'[b].at \notin reused
                => Describes(target'[b], actual'[b])
          /\ pc'[b] # "reopen" /\ actual'[b] # None => SameEndpoints(target'[b], actual'[b])
  <2> SUFFICES ASSUME NEW b \in Clients, pc'[b] \in AfterSelection
               PROVE  /\ target'[b] \in Entries
                      /\ Known(target[b])'
                      /\ ~ Unsupported(target'[b])
                      /\ want'[b] \in Serials => target'[b].serial = want'[b]
                      /\ pc'[b] # "reopen" /\ actual'[b] # None /\ target'[b].at \notin reused
                            => Describes(target'[b], actual'[b])
                      /\ pc'[b] # "reopen" /\ actual'[b] # None
                            => SameEndpoints(target'[b], actual'[b])
    OBVIOUS
  <2>1. Known(target'[b])
    BY DEF AskInv, Asked
  <2>2. Known(target[b])'
    BY <2>1 DEF Known, Describes
  <2> QED
    BY <2>2 DEF AskInv, Asked
<1> QED
  BY <1>1, <1>2 DEF AskInv, Asked, Describes, SameEndpoints, Unsupported

(* A call that ends has nothing selected. *)
LEMMA EndsAsked ==
    ASSUME AskInv, NEW c \in Clients, NEW r \in Results, Ends(c, r)
    PROVE  Asked'
<1>1. /\ pc'[c] = "idle" /\ found'[c] = <<>>
      /\ \A b \in Clients : b # c => pc'[b] = pc[b] /\ want'[b] = want[b] /\ found'[b] = found[b]
                                     /\ target'[b] = target[b] /\ actual'[b] = actual[b]
  BY DEF Ends, AskInv, TypeOK
<1>2. Len(found'[c]) = 0
  BY <1>1
<1>3. pc'[c] \notin AfterSelection
  BY <1>1 DEF AfterSelection
<1> QED
  BY <1>1, <1>2, <1>3, OneClientAsks DEF Ends

(* Selecting a supported device found that is the one asked for. *)
LEMMA SelectedAsked ==
    ASSUME AskInv, NEW c \in Clients, NEW i \in 1 .. Len(found[c]),
           ~ Unsupported(found[c][i]),
           want[c] \in Serials => found[c][i].serial = want[c],
           Selected(c, found[c][i])
    PROVE  Asked'
<1>1. found[c][i] \in Entries /\ Known(found[c][i])
  BY DEF AskInv, TypeOK, Asked
<1>2. pc'[c] = "reopen" /\ target'[c] = found[c][i] /\ found' = found /\ want' = want
  BY DEF Selected, AskInv, TypeOK
<1>3. \A b \in Clients : b # c => pc'[b] = pc[b] /\ want'[b] = want[b] /\ found'[b] = found[b]
                                  /\ target'[b] = target[b] /\ actual'[b] = actual[b]
  BY DEF Selected, AskInv, TypeOK
<1>4. \A j \in 1 .. Len(found'[c]) : Known(found'[c][j])
  BY <1>2 DEF AskInv, Asked
<1> QED
  BY <1>1, <1>2, <1>3, <1>4, OneClientAsks DEF Selected

(* The strings of one more candidate. *)
LEMMA DescribeAsked ==
    ASSUME AskInv, NEW c \in Clients, NEW a \in Addresses, Describe(c, a)
    PROVE  Asked'
<1>1. CASE \E r \in Results : Ends(c, r)
  BY <1>1, EndsAsked
<1>2. CASE /\ bus[a] # None /\ Readable(bus[a])
           /\ found' = [found EXCEPT ![c] = Append(@, Entry(a, bus[a]))]
           /\ UNCHANGED <<bus, used, reused, holder, ready, pc, want, listed, target, actual, result>>
  <2> DEFINE entry == Entry(a, bus[a])
  <2>a. bus[a] \in Devices
    BY <1>2 DEF AskInv, TypeOK
  <2>b. entry \in Entries
    BY <1>2, <2>a, EntryType
  <2>c. entry.at = a /\ Describes(entry, bus[a])
    BY DEF Entry, Describes
  <2>1. Known(entry) /\ entry \in Entries
    BY <1>2, <2>b, <2>c DEF AskInv, Asked, Known
  <2> HIDE DEF entry
  <2>2. found'[c] = Append(found[c], entry)
    BY <1>2 DEF entry, AskInv, TypeOK
  <2>3. \A i \in 1 .. Len(found'[c]) : Known(found'[c][i])
    <3> SUFFICES ASSUME NEW i \in 1 .. Len(found'[c]) PROVE Known(found'[c][i])
      OBVIOUS
    <3>1. found[c] \in Seq(Entries)
      BY DEF AskInv, TypeOK
    <3>2. \/ i \in 1 .. Len(found[c]) /\ found'[c][i] = found[c][i]
          \/ found'[c][i] = entry
      BY <2>1, <2>2, <3>1
    <3> QED
      BY <2>1, <3>2 DEF AskInv, Asked
  <2>4. \A b \in Clients : b # c => found'[b] = found[b]
    BY <1>2 DEF AskInv, TypeOK
  <2>5. pc[c] \notin AfterSelection
    BY DEF Describe, AfterSelection
  <2> QED
    BY <1>2, <2>3, <2>4, <2>5, OneClientAsks
<1> QED
  BY <1>1, <1>2, EndResults DEF Describe

(* The device found at the selected address is the one described, unless the *)
(* address has been given again.                                            *)
LEMMA ReopenAsked ==
    ASSUME AskInv, NEW c \in Clients, Reopen(c)
    PROVE  Asked'
<1>1. CASE \E r \in Results : Ends(c, r)
  BY <1>1, EndsAsked
<1>2. CASE /\ bus[target[c].at] # None
           /\ EndpointConfig(ConfigOf[bus[target[c].at]]) = target[c].endpoints
           /\ pc' = [pc EXCEPT ![c] = "claim"]
           /\ actual' = [actual EXCEPT ![c] = bus[target[c].at]]
           /\ found' = [found EXCEPT ![c] = <<>>]
           /\ UNCHANGED <<bus, used, reused, holder, ready, want, target, result>>
  <2>1. pc[c] \in AfterSelection
    BY DEF Reopen, AfterSelection
  <2>2. Known(target[c])
    BY <2>1 DEF AskInv, Asked
  <2>3. actual'[c] = bus[target[c].at] /\ pc'[c] = "claim"
    BY <1>2 DEF AskInv, TypeOK
  <2>4. target[c].at \notin reused => Describes(target[c], actual'[c])
    BY <1>2, <2>2, <2>3 DEF Known
  <2>5. \A b \in Clients : b # c => pc'[b] = pc[b] /\ actual'[b] = actual[b] /\ found'[b] = found[b]
    BY <1>2 DEF AskInv, TypeOK
  <2>6. Len(found'[c]) = 0
    <3>1. found'[c] = <<>>
      BY <1>2 DEF AskInv, TypeOK
    <3> QED
      BY <3>1
  <2>7. /\ target'[c] \in Entries
        /\ Known(target'[c])
        /\ ~ Unsupported(target'[c])
        /\ want'[c] \in Serials => target'[c].serial = want'[c]
    BY <1>2, <2>1 DEF AskInv, Asked
  <2>8. SameEndpoints(target[c], actual'[c])
    BY <1>2, <2>3 DEF SameEndpoints
  <2> QED
    BY <1>2, <2>4, <2>5, <2>6, <2>7, <2>8, OneClientAsks
<1> QED
  BY <1>1, <1>2, EndResults DEF Reopen

(* From the claim on the selection stays as it is. *)
LEMMA ProceedAsked ==
    ASSUME AskInv, NEW c \in Clients, NEW label,
           pc[c] \in {"claim", "session", "initialize", "open"},
           pc' = [pc EXCEPT ![c] = label],
           UNCHANGED <<bus, used, reused, want, found, target, actual>>
    PROVE  Asked'
<1>1. pc[c] \in AfterSelection /\ pc[c] # "reopen"
  BY DEF AfterSelection
<1>2. \A b \in Clients : b # c => pc'[b] = pc[b]
  BY DEF AskInv, TypeOK
<1>3. \A i \in 1 .. Len(found'[c]) : Known(found'[c][i])
  BY DEF AskInv, Asked
<1> QED
  BY <1>1, <1>2, <1>3, OneClientAsks DEF AskInv, Asked

(* Every step of a client keeps what it selected the one it asked for. *)
LEMMA ClientStepAsked ==
    ASSUME AskInv, NEW c \in Clients, ClientStep(c)
    PROVE  Asked'
<1>0. \A r \in Results : Ends(c, r) => Asked'
  BY EndsAsked
<1>1. ASSUME NEW request \in Requests, Enumerate(c, request)
      PROVE  Asked'
  <2>1. pc'[c] \notin AfterSelection
    BY <1>1 DEF Enumerate, AfterSelection, AskInv, TypeOK
  <2>2. Len(found'[c]) = 0
    BY <1>1 DEF Enumerate, AskInv, TypeOK
  <2>3. \A b \in Clients : b # c => pc'[b] = pc[b] /\ want'[b] = want[b] /\ found'[b] = found[b]
    BY <1>1 DEF Enumerate, AskInv, TypeOK
  <2> QED
    BY <1>1, <2>1, <2>2, <2>3, OneClientAsks DEF Enumerate
<1>2. ASSUME NEW a \in Addresses, Describe(c, a)
      PROVE  Asked'
  BY <1>2, DescribeAsked
<1>3. CASE SelectOnly(c)
  <2>1. CASE \E r \in Results : Ends(c, r)
    BY <1>0, <2>1
  <2>2. CASE /\ ~ \E i \in 1 .. Len(found[c]) : Unsupported(found[c][i])
             /\ want[c] = "only" /\ Len(found[c]) = 1 /\ Selected(c, found[c][1])
    BY <2>2, SelectedAsked, DiscoveryAssumption
  <2> QED
    BY <1>3, <2>1, <2>2, EndResults DEF SelectOnly
<1>4. CASE SelectSerial(c)
  <2>1. CASE \E r \in Results : Ends(c, r)
    BY <1>0, <2>1
  <2>2. CASE \E i \in 1 .. Len(found[c]) : /\ found[c][i].serial = want[c]
                                          /\ ~ Unsupported(found[c][i])
                                          /\ Selected(c, found[c][i])
    BY <2>2, SelectedAsked
  <2> QED
    BY <1>4, <2>1, <2>2, EndResults DEF SelectSerial
<1>5. CASE Reopen(c)
  BY <1>5, ReopenAsked
<1>6. CASE Claim(c)
  BY <1>0, <1>6, ProceedAsked, EndResults DEF Claim
<1>7. CASE StartSession(c) \/ Initialize(c) \/ DropResets(c)
  BY <1>0, <1>7, ProceedAsked, EndResults DEF StartSession, Initialize, DropResets
<1>8. CASE EmptySerial(c) \/ ListFails(c) \/ DropReleases(c) \/ ClientDies(c)
  BY <1>0, <1>8, EndResults DEF EmptySerial, ListFails, DropReleases, ClientDies
<1> QED
  BY <1>1, <1>2, <1>3, <1>4, <1>5, <1>6, <1>7, <1>8 DEF ClientStep

(* A device that goes leaves nothing to be described; one that comes has an *)
(* address of which nothing is known yet, or makes it one given again.       *)
LEMMA BusStepAsked ==
    ASSUME AskInv, NEW a \in Addresses, Detach(a) \/ \E d \in Devices : Attach(a, d)
    PROVE  Asked'
<1> USE DEF AskInv
<1>1. \A entry \in Entries : Known(entry) => Known(entry)'
  <2> SUFFICES ASSUME NEW entry \in Entries, Known(entry) PROVE Known(entry)'
    OBVIOUS
  <2>1. entry.at \in Addresses
    BY DEF Entries
  <2>2. /\ entry.at \in used'
        /\ entry.at \notin reused' => bus'[entry.at] \in {bus[entry.at], None}
    BY <2>1 DEF Known, Detach, Attach, TypeOK
  <2>3. entry.at \notin reused' => entry.at \notin reused
    BY DEF Detach, Attach
  <2> QED
    BY <2>2, <2>3 DEF Known, Describes
<1>2. UNCHANGED <<pc, want, found, target>> /\ used \subseteq used' /\ reused \subseteq reused'
  BY DEF Detach, Attach, clientVars
<1>3. \A c \in Clients : \A i \in 1 .. Len(found[c]) : found[c][i] \in Entries
  BY DEF TypeOK
<1>4. \A b \in Addresses : bus'[b] # None => b \in used'
  BY DEF Detach, Attach, TypeOK, Asked
<1>5. \A c \in Clients : actual'[c] \in {actual[c], None}
  BY DEF Detach, Attach, clientVars
<1>6. \A c \in Clients : \A i \in 1 .. Len(found'[c]) : Known(found[c][i])'
  BY <1>1, <1>2, <1>3 DEF Asked
<1>7. \A c \in Clients : pc'[c] \in AfterSelection =>
          /\ target'[c] \in Entries
          /\ Known(target[c])'
          /\ ~ Unsupported(target'[c])
          /\ want'[c] \in Serials => target'[c].serial = want'[c]
          /\ pc'[c] # "reopen" /\ actual'[c] # None /\ target'[c].at \notin reused'
                => Describes(target'[c], actual'[c])
          /\ pc'[c] # "reopen" /\ actual'[c] # None => SameEndpoints(target'[c], actual'[c])
  BY <1>1, <1>2, <1>5 DEF Asked
<1> QED
  BY <1>4, <1>6, <1>7 DEF Asked, Unsupported, Describes, SameEndpoints

(* So does every step, the types being what they are. *)
LEMMA AskInvariant == Spec => []AskInv
<1>1. Init => AskInv
  <2>1. ASSUME Init PROVE Asked
    BY <2>1 DEF Init, Asked, AfterSelection
  <2> QED
    BY <2>1, InitClaims DEF AskInv, ClaimInv, Shape
<1>2. AskInv /\ ClaimInv' /\ [Next]_vars => AskInv'
  <2> SUFFICES ASSUME AskInv, ClaimInv', [Next]_vars PROVE AskInv'
    OBVIOUS
  <2>1. TypeOK'
    BY DEF ClaimInv, Shape
  <2>2. CASE UNCHANGED vars
    BY <2>1, <2>2 DEF vars, clientVars, AskInv, Asked, Known, Describes, SameEndpoints, Unsupported
  <2> QED
    BY <2>1, <2>2, ClientStepAsked, BusStepAsked DEF Next, AskInv
<1> QED
  BY <1>1, <1>2, ClaimInvariant, PTL DEF Spec

(* For any number of clients, devices and addresses, an open handle is a     *)
(* supported device's and the one asked for, and it drives the device it    *)
(* describes unless the address was given to a second one (open_by_serial,  *)
(* open_rusb).                                                              *)
THEOREM OpenIsAsked == Spec => []OpenedAsAsked
<1>1. AskInv => OpenedAsAsked
  BY DEF AskInv, Asked, OpenedAsAsked, AfterSelection, Unsupported, SameEndpoints
<1> QED
  BY <1>1, AskInvariant, PTL
----------------------------------------------------------------------------
ReadyInv == ClaimInv /\ ReadyWhenOpen

(* A client that has claimed a device does not reach the chip of another     *)
(* client's open handle.                                                    *)
LEMMA OthersUntouched ==
    ASSUME ReadyInv, NEW c \in Clients, pc[c] \in Claimed,
           NEW b \in Clients, b # c, pc[b] = "open", actual[b] # None
    PROVE  actual[b] \in ready \ {actual[c]}
<1>1. actual[b] \in Devices /\ actual[b] \in ready
  BY DEF ReadyInv, ClaimInv, Shape, TypeOK, ReadyWhenOpen
<1>2. CASE actual[c] = actual[b]
  <2>1. holder[actual[b]] = b /\ holder[actual[b]] = c
    BY <1>1, <1>2 DEF ReadyInv, ClaimInv, ClaimsMatchHandles, Claimed
  <2> QED
    BY <2>1
<1> QED
  BY <1>1, <1>2

(* So what a client does leaves the chips of open handles as they were. *)
LEMMA ClientStepReady ==
    ASSUME ReadyInv, NEW c \in Clients, ClientStep(c)
    PROVE  ReadyWhenOpen'
<1>a. pc \in [Clients -> Labels] /\ actual \in [Clients -> Devices \cup {None}]
  BY DEF ReadyInv, ClaimInv, Shape, TypeOK
<1>1. ASSUME ready' = ready,
             \A b \in Clients : pc'[b] = "open" => pc[b] = "open" /\ actual'[b] = actual[b]
      PROVE  ReadyWhenOpen'
  BY <1>1 DEF ReadyInv, ReadyWhenOpen
<1>2. \A r : Ends(c, r) => ReadyWhenOpen'
  BY <1>1, <1>a DEF Ends
<1>3. CASE \/ EmptySerial(c) \/ ListFails(c) \/ DropReleases(c) \/ ClientDies(c)
           \/ \E request \in Requests : Enumerate(c, request)
           \/ \E a \in Addresses : Describe(c, a)
  BY <1>1, <1>2, <1>3, <1>a DEF EmptySerial, ListFails, DropReleases, ClientDies, Enumerate, Describe
<1>4. CASE SelectOnly(c) \/ SelectSerial(c)
  BY <1>1, <1>2, <1>4, <1>a DEF SelectOnly, SelectSerial, Selected
<1>5. CASE Reopen(c) \/ Claim(c)
  BY <1>1, <1>2, <1>5, <1>a DEF Reopen, Claim
<1>6. ASSUME pc[c] \in Claimed, actual' = actual,
             ready \ {actual[c]} \subseteq ready',
             pc'[c] = "open" => actual[c] \in ready',
             \A b \in Clients : b # c => pc'[b] = pc[b]
      PROVE  ReadyWhenOpen'
  <2> SUFFICES ASSUME NEW b \in Clients, pc'[b] = "open", actual'[b] # None
               PROVE  actual'[b] \in ready'
    BY DEF ReadyWhenOpen
  <2> QED
    BY <1>6, OthersUntouched
<1>7. CASE StartSession(c)
  BY <1>2, <1>6, <1>7, <1>a DEF StartSession, Claimed
<1>8. CASE Initialize(c)
  BY <1>2, <1>6, <1>8, <1>a DEF Initialize, Claimed
<1>9. CASE DropResets(c)
  BY <1>6, <1>9, <1>a DEF DropResets, Claimed
<1> QED
  BY <1>3, <1>4, <1>5, <1>7, <1>8, <1>9 DEF ClientStep

(* For any number of clients: an open handle that still reaches its device   *)
(* finds the chip as its own initialize left it, although resets need no     *)
(* claim (Drop resets before it releases; open_rusb claims before initialize *)
(* resets).                                                                 *)
THEOREM ChipStaysReady == Spec => []ReadyWhenOpen
<1>1. Init => ReadyWhenOpen
  BY DEF Init, ReadyWhenOpen
<1>2. ReadyWhenOpen /\ ClaimInv /\ [Next]_vars => ReadyWhenOpen'
  <2> SUFFICES ASSUME ReadyInv, [Next]_vars PROVE ReadyWhenOpen'
    BY DEF ReadyInv
  <2>1. CASE UNCHANGED vars
    BY <2>1 DEF vars, clientVars, ReadyInv, ReadyWhenOpen
  <2>2. ASSUME NEW a \in Addresses, Detach(a) \/ \E d \in Devices : Attach(a, d)
        PROVE  ReadyWhenOpen'
    BY <2>2 DEF Detach, Attach, clientVars, ReadyInv, ReadyWhenOpen
  <2> QED
    BY <2>1, <2>2, ClientStepReady DEF Next
<1> QED
  BY <1>1, <1>2, ClaimInvariant, PTL DEF Spec
----------------------------------------------------------------------------
(* What is found is on the list. *)
ListInv ==
    /\ \A c \in Clients : pc[c] = "listing" => AddressesOf(found[c]) \subseteq listed[c]
    /\ SelectedFromAll

(* A step after which c, like every other client, is as before or not at one *)
(* of the two steps in question.                                            *)
LEMMA NotListing ==
    ASSUME ListInv, NEW c \in Clients,
           pc'[c] \notin {"listing", "reopen"},
           \A b \in Clients : b # c =>
               pc'[b] = pc[b] /\ want'[b] = want[b] /\ found'[b] = found[b]
               /\ target'[b] = target[b] /\ listed'[b] = listed[b]
    PROVE  ListInv'
BY DEF ListInv, SelectedFromAll

(* Whatever ends a call keeps the lists of the others. *)
LEMMA EndsListed ==
    ASSUME TypeOK, ListInv, NEW c \in Clients, NEW r, Ends(c, r)
    PROVE  ListInv'
BY NotListing DEF Ends, TypeOK

(* A candidate described is one that was pending. *)
LEMMA DescribeListed ==
    ASSUME TypeOK, ListInv, NEW c \in Clients, NEW a \in Addresses, Describe(c, a)
    PROVE  ListInv'
<1>1. CASE \E r : Ends(c, r)
  BY <1>1, EndsListed
<1>2. CASE /\ found' = [found EXCEPT ![c] = Append(@, Entry(a, bus[a]))]
           /\ UNCHANGED <<bus, used, reused, holder, ready, pc, want, listed, target, actual, result>>
  <2> DEFINE entry == Entry(a, bus[a])
  <2>1. entry.at = a /\ a \in listed[c]
    BY DEF Entry, Describe, Pending
  <2> HIDE DEF entry
  <2>2. found[c] \in Seq(Entries) /\ found'[c] = Append(found[c], entry)
    BY <1>2 DEF TypeOK, entry
  <2>3. AddressesOf(found'[c]) \subseteq listed[c]
    <3> SUFFICES ASSUME NEW i \in DOMAIN found'[c] PROVE found'[c][i].at \in listed[c]
      BY DEF AddressesOf
    <3>1. \/ i \in DOMAIN found[c] /\ found'[c][i] = found[c][i]
          \/ found'[c][i] = entry
      BY <2>2
    <3>2. \A j \in DOMAIN found[c] : found[c][j].at \in listed[c]
      BY DEF Describe, ListInv, AddressesOf
    <3> QED
      BY <2>1, <3>1, <3>2
  <2>4. \A b \in Clients : b # c => found'[b] = found[b]
    BY <1>2 DEF TypeOK
  <2>5. pc[c] = "listing" /\ pc' = pc /\ listed' = listed /\ want' = want /\ target' = target
    BY <1>2 DEF Describe
  <2>6. \A b \in Clients : pc'[b] = "listing" => AddressesOf(found'[b]) \subseteq listed'[b]
    BY <2>3, <2>4, <2>5 DEF ListInv
  <2>7. SelectedFromAll'
    BY <2>4, <2>5 DEF ListInv, SelectedFromAll
  <2> QED
    BY <2>6, <2>7 DEF ListInv
<1> QED
  BY <1>1, <1>2 DEF Describe

(* With nothing pending what is found is the list. *)
LEMMA SelectedListed ==
    ASSUME TypeOK, ListInv, NEW c \in Clients, pc[c] = "listing", Pending(c) = {},
           NEW i \in 1 .. Len(found[c]), Selected(c, found[c][i]),
           want[c] = "only" => Len(found[c]) = 1,
           want[c] \in Serials => /\ found[c][i].serial = want[c]
                                  /\ \A j \in 1 .. Len(found[c]) :
                                        found[c][j].serial = want[c] => i <= j
    PROVE  ListInv'
<1>1. found[c] \in Seq(Entries)
  BY DEF TypeOK
<1>2. listed[c] = AddressesOf(found[c])
  BY DEF ListInv, Pending
<1>3. /\ found' = found /\ listed' = listed /\ want' = want
      /\ pc'[c] = "reopen" /\ target'[c] = found[c][i]
      /\ \A b \in Clients : b # c => pc'[b] = pc[b] /\ target'[b] = target[b]
  BY DEF Selected, TypeOK
<1>4. ChosenFrom(found[c], want[c], found[c][i])
  BY <1>1 DEF ChosenFrom
<1> QED
  BY <1>2, <1>3, <1>4 DEF ListInv, SelectedFromAll

(* Every step keeps the lists whole. *)
LEMMA StepListed ==
    ASSUME TypeOK, ListInv, [Next]_vars
    PROVE  ListInv'
<1>1. CASE UNCHANGED vars \/ \E a \in Addresses : Detach(a) \/ \E d \in Devices : Attach(a, d)
  BY <1>1 DEF vars, clientVars, Detach, Attach, ListInv, SelectedFromAll
<1>2. ASSUME NEW c \in Clients, ClientStep(c)
      PROVE  ListInv'
  <2>1. CASE \E r : Ends(c, r)
    BY <2>1, EndsListed
  <2>2. ASSUME NEW request \in Requests, Enumerate(c, request)
        PROVE  ListInv'
    <3>1. /\ pc'[c] = "listing" /\ found'[c] = <<>>
          /\ \A b \in Clients : b # c =>
                pc'[b] = pc[b] /\ want'[b] = want[b] /\ found'[b] = found[b]
                /\ target'[b] = target[b] /\ listed'[b] = listed[b]
      BY <2>2 DEF Enumerate, TypeOK
    <3>2. AddressesOf(found'[c]) = {}
      <4>1. DOMAIN found'[c] = {}
        BY <3>1
      <4> QED
        BY <4>1 DEF AddressesOf
    <3> QED
      BY <3>1, <3>2 DEF ListInv, SelectedFromAll
  <2>3. ASSUME NEW a \in Addresses, Describe(c, a)
        PROVE  ListInv'
    BY <2>3, DescribeListed
  <2>4. CASE SelectOnly(c)
    <3>1. CASE want[c] = "only" /\ Len(found[c]) = 1 /\ Selected(c, found[c][1])
      BY <2>4, <3>1, SelectedListed, DiscoveryAssumption DEF SelectOnly
    <3> QED
      BY <2>1, <2>4, <3>1 DEF SelectOnly
  <2>5. CASE SelectSerial(c)
    <3> DEFINE matches == {i \in 1 .. Len(found[c]) : found[c][i].serial = want[c]}
    <3>1. CASE \E i \in matches : (\A j \in matches : i <= j) /\ Selected(c, found[c][i])
      BY <2>5, <3>1, SelectedListed, DiscoveryAssumption DEF SelectSerial
    <3> QED
      BY <2>1, <2>5, <3>1 DEF SelectSerial
  <2>6. CASE Reopen(c) \/ Claim(c) \/ StartSession(c) \/ Initialize(c) \/ DropResets(c)
    <3>1. CASE /\ pc'[c] \in {"claim", "session", "initialize", "open", "closing"}
               /\ \A b \in Clients : b # c =>
                     pc'[b] = pc[b] /\ want'[b] = want[b] /\ found'[b] = found[b]
                     /\ target'[b] = target[b] /\ listed'[b] = listed[b]
      BY <3>1, NotListing
    <3> QED
      BY <2>1, <2>6, <3>1 DEF TypeOK, Reopen, Claim, StartSession, Initialize, DropResets
  <2> QED
    BY <1>2, <2>1, <2>2, <2>3, <2>4, <2>5, <2>6
       DEF ClientStep, EmptySerial, ListFails, DropReleases, ClientDies
<1> QED
  BY <1>1, <1>2 DEF Next

(* However the bus changes meanwhile, a device is selected only when all of  *)
(* the list has been read, and is the only one of it or the first with the   *)
(* serial (open, open_by_serial, enumerate_rusb).                           *)
THEOREM SelectionIsWhole == Spec => []SelectedFromAll
<1>1. Init => ListInv
  BY DEF Init, ListInv, SelectedFromAll
<1>2. ListInv /\ ClaimInv /\ [Next]_vars => ListInv'
  BY StepListed DEF ClaimInv, Shape
<1>3. ListInv => SelectedFromAll
  BY DEF ListInv
<1> QED
  BY <1>1, <1>2, <1>3, ClaimInvariant, PTL DEF Spec
=============================================================================
