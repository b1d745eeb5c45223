------------------------------- MODULE Devices -------------------------------
(***************************************************************************)
(* tools/core/devices: the list of devices of the system (Devices), each a *)
(* document of its own (Device), scanned from udev, written to the         *)
(* configuration file, read from it and compared with it.  The documents   *)
(* pass through strings: lines of hexadecimal text that hold lines again.  *)
(* Device.h, with the operator != that Diff compares by, is not in the     *)
(* repository; what is said of Diff is said of three readings of it.       *)
(***************************************************************************)
EXTENDS CoreUtils, SequencesExt

CONSTANTS
  Names,      \* names of device nodes: one byte each
  Contents    \* what udev may tell of a device: functions from keys, one byte, to values

\* udev keeps the properties of a device as lines, so no value holds a newline.
ASSUME DevicesAssumption ==
  /\ Names \subseteq 65 .. 122
  /\ \A c \in Contents :
       /\ DOMAIN c \subseteq 65 .. 122
       /\ c \in [DOMAIN c -> Seq((0 .. 255) \ {Newline})]

VARIABLES
  known,    \* mContent of the Devices document: a function from names to devices
  file,     \* the line in the configuration file
  saved,    \* history: the content of the document the file was written from
  device,   \* a Device of the application
  source    \* history: the device it was last assigned from

devVars == <<known, file, saved, device, source>>

DeviceId == 49      \* the identifier of a device document, as one digit
None == 48          \* DeviceAction::None, as one digit

NoFunction == [n \in {} |-> {}]

Device(name, content) == [name |-> <<name>>, action |-> None, content |-> content]

\* Device::Device()
NewDevice == [name |-> <<>>, action |-> None, content |-> NoFunction]

-----------------------------------------------------------------------------
(* Device.cpp.                                                             *)

IsContains(d, key, value) == d.name # <<>> /\ key \in DOMAIN d.content /\ d.content[key] = value

\* All that e has is in d too; d may have more.
IsStrongEqual(d, e) ==
  /\ e.name # <<>> /\ e.content # NoFunction
  /\ \A key \in DOMAIN e.content : IsContains(d, key, e.content[key])

\* What != between devices may mean: a difference anywhere, or the contrary of the
\* one comparison Device.cpp has, asked of either side.
Readings == {"whole", "strong", "strongOther"}

Differ(d, e, how) ==
  \/ how = "whole" /\ d # e
  \/ how = "strong" /\ ~IsStrongEqual(d, e)
  \/ how = "strongOther" /\ ~IsStrongEqual(e, d)

\* The keys of a std::map, in their order.
Ordered(keys) ==
  CHOOSE s \in SetToSeqs(keys) : \A i, j \in DOMAIN s : i < j => s[i] < s[j]

\* The lines of a map in the order of its keys, without the newline at the end.
PropertyLines(content) ==
  LET keys == Ordered(DOMAIN content)
  IN  StrChop(FlattenSeq([i \in DOMAIN keys |->
        <<keys[i], Equals>> \o content[keys[i]] \o <<Newline>>]), 1)

DeviceToByteArray(d) ==
  StrToHex(StrToHex(<<DeviceId, Newline, d.action, Newline>> \o d.name)
           \o <<Newline>> \o StrToHex(PropertyLines(d.content)))

\* A line counts when it has exactly two parts.
Properties(text) ==
  LET lines == {StrSplit(StrSplit(text, Newline)[i], Equals) :
                  i \in DOMAIN StrSplit(text, Newline)}
      pairs == {pair \in lines : Len(pair) = 2}
  IN  [ k \in {pair[1][1] : pair \in pairs} |->
          (CHOOSE pair \in pairs : pair[1][1] = k)[2] ]

\* A device is left as it was by an array without two halves, or without the
\* three single attributes in the first.
DeviceFromByteArray(d, data) ==
  LET list  == StrSplit(StrFromHex(data), Newline)
      list1 == StrSplit(StrFromHex(list[1]), Newline)
      ok    == data # <<>> /\ Len(list) = 2 /\ Len(list1) = 3
  IN  [ ok |-> ok,
        device |-> IF ok THEN [ name |-> list1[3], action |-> list1[2][1],
                                content |-> Properties(StrFromHex(list[2])) ]
                   ELSE d ]

\* operator=(const Device &): name and action, then everything through the array.
Assign(d, e) ==
  DeviceFromByteArray([d EXCEPT !.name = e.name, !.action = e.action],
                      DeviceToByteArray(e)).device

-----------------------------------------------------------------------------
(* Devices.cpp.  Append leaves a name that is there already alone.         *)

Append1(devices, d) ==
  IF d.name[1] \in DOMAIN devices THEN devices
  ELSE [n \in DOMAIN devices \cup {d.name[1]} |-> IF n = d.name[1] THEN d ELSE devices[n]]

DevicesToByteArray(devices) ==
  LET names == Ordered(DOMAIN devices)
  IN  StrToHex(StrChop(FlattenSeq([i \in DOMAIN names |->
        DeviceToByteArray(devices[names[i]]) \o <<Newline>>]), 1))

\* A FromByteArray that goes on behind a device it cannot read.
DevicesFromByteArraySkips(data) ==
  LET infos == StrSplit(StrFromHex(data), Newline)
      Read[i \in 0 .. Len(infos)] ==
        LET last == Read[i - 1]
            next == DeviceFromByteArray(NewDevice, infos[i])
        IN  IF i = 0 THEN NoFunction
            ELSE IF next.ok THEN Append1(last, next.device) ELSE last
  IN  Read[Len(infos)]

\* All devices or none.
DevicesFromByteArray(data) ==
  LET infos == StrSplit(StrFromHex(data), Newline)
      Read[i \in 0 .. Len(infos)] ==
        LET last == Read[i - 1]
            next == DeviceFromByteArray(NewDevice, infos[i])
        IN  IF i = 0 THEN NoFunction ELSE Append1(last, next.device)
  IN  IF \A i \in DOMAIN infos : DeviceFromByteArray(NewDevice, infos[i]).ok
        THEN Read[Len(infos)] ELSE NoFunction

\* ContainsPropery: one of the properties is enough.
ContainsPropery(d, prop) == \E key \in DOMAIN prop : IsContains(d, key, prop[key])

\* A Diff that looks for new devices only.
DiffNewOnly(devices, other, excluded, how) == DOMAIN other \ DOMAIN devices

\* The names Diff puts into its result: devices of the argument that are not here,
\* and devices that are here but different, without those that have an excluded
\* property (asked of the one that would be returned).
Diff(devices, other, excluded, how) ==
  { n \in DOMAIN other :
      LET d == IF n \in DOMAIN devices THEN devices[n] ELSE other[n]
      IN  /\ n \notin DOMAIN devices \/ Differ(d, other[n], how)
          /\ ~ContainsPropery(d, excluded) }

DevInit ==
  /\ known = NoFunction
  /\ file = <<>> /\ saved = NoFunction
  /\ device = NewDevice /\ source = NewDevice

\* Enumerate makes a device for every node udev tells of, Scan clears the list and
\* appends them; between two scans devices come and go.
Scan(nodes, content) ==
  /\ known' = [n \in nodes |-> Device(n, content[n])]
  /\ UNCHANGED <<file, saved, device, source>>

\* ToFile of the document.
ToFile ==
  /\ file' = DevicesToByteArray(known)
  /\ saved' = known
  /\ UNCHANGED <<known, device, source>>

\* FromFile reads the first line and gives it to FromByteArray.
FromFile ==
  /\ known' = DevicesFromByteArray(file)
  /\ UNCHANGED <<file, saved, device, source>>

\* The application assigns a device of the list to its own.
TakeDevice(n) ==
  /\ n \in DOMAIN known
  /\ device' = Assign(device, known[n])
  /\ source' = known[n]
  /\ UNCHANGED <<known, file, saved>>

DevNext ==
  \/ \E nodes \in SUBSET Names : \E content \in [nodes -> Contents] : Scan(nodes, content)
  \/ ToFile \/ FromFile
  \/ \E n \in Names : TakeDevice(n)

DevSpec == DevInit /\ [][DevNext]_devVars

-----------------------------------------------------------------------------
(* Properties.                                                             *)

\* What an array can carry: at least one property in every device, and no value
\* that is empty or has a sign of equality with something behind it.
Carried(content) ==
  { k \in DOMAIN content : content[k] # <<>> /\ Find(StrChop(content[k], 1), <<Equals>>, 1) = 0 }

Clean(devices) ==
  \A n \in DOMAIN devices :
    devices[n].content # NoFunction /\ Carried(devices[n].content) = DOMAIN devices[n].content

\* A file gives back all the devices it was written from or none, the latter only
\* if one of them has no property; the properties given back are the ones an array
\* can carry, with the values they had (ToByteArray, FromByteArray).
FileRestores ==
  LET read == DevicesFromByteArray(file) IN
    IF \E n \in DOMAIN saved : saved[n].content = NoFunction
      THEN DOMAIN read = {}
      ELSE /\ DOMAIN read = DOMAIN saved
           /\ \A n \in DOMAIN saved :
                /\ read[n].name = saved[n].name
                /\ DOMAIN read[n].content = Carried(saved[n].content)
                /\ \A k \in DOMAIN read[n].content : read[n].content[k] = saved[n].content[k]

\* The properties two devices both have have the same values.
Agree(d, e) ==
  \A key \in DOMAIN d.content \cap DOMAIN e.content : d.content[key] = e.content[key]

\* Devices that are the ones the file was written from show no difference to it,
\* and devices without a difference to it were all written to it and have kept the
\* values of what they have, however they are compared.  That they are what they
\* were, so that nothing was added or lost, is known only if != looks at all of
\* both (Diff, IsStrongEqual, FromByteArray).
DiffFindsChange ==
  LET was == DevicesFromByteArray(file) IN
  Clean(saved) =>
    \A how \in Readings :
      /\ saved = known => Diff(was, known, NoFunction, how) = {}
      /\ Diff(was, known, NoFunction, how) = {} =>
           \A n \in DOMAIN known :
             /\ n \in DOMAIN saved
             /\ Agree(saved[n], known[n])
             /\ how = "whole" => saved[n] = known[n]

\* A device assigned from another is that one alone: its name, and of its
\* properties those an array carries; nothing is left of what it was before
\* (operator=, which goes through the array).  A source without properties is the
\* exception: there the array is refused.
AssignedFromOne ==
  source.content # NoFunction =>
    /\ device.name = source.name
    /\ device.content = [k \in Carried(source.content) |-> source.content[k]]

\* What has gone through an array, in a file or in an assignment, is what it was as
\* far as an array can carry it (ToByteArray, FromByteArray, operator=).
ArrayRestores == FileRestores /\ AssignedFromOne
=============================================================================
