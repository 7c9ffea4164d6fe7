-------------------------------- MODULE HidFiles --------------------------------
(***************************************************************************)
(* HID devices on Linux (hid_linux.c) and on Windows (hid_windows.c), where *)
(* the kernel keeps the input reports and a read asks it for the next one.  *)
(* On Linux a read with a timeout polls the file first.  On Windows a read  *)
(* starts an overlapped request and waits for its event; when the time is   *)
(* up the request is left pending, with the buffer of the device to write   *)
(* to, and the next read goes on with it.  One thread reads and closes.     *)
(* A behaviour starts with the listing of the devices (HidEnumeration),     *)
(* which is all that it has of macOS: HidOsx is the rest.                   *)
(* Definitions marked "variant" are mistakes the code could have made; no   *)
(* definition uses them.                                                    *)
(***************************************************************************)
EXTENDS HidEnumeration, FiniteSets

CONSTANTS
    Buses,        \* what may be plugged in: sequences of devices
    Queries,      \* what is asked for: ids and a serial number, or Null
    Descriptors,  \* the report descriptors of devices: sequences of items
    Reader,       \* the thread that reads
    MaxReports,   \* bound: reports that the device sends
    Buffers       \* reports that the kernel keeps: 64 on both systems

VARIABLES
    platform,
    bus, query, records,     \* from hid_enumerate() to hid_open_path()
    handle,                  \* of the device
    plugged,                 \* it is there
    numbered,                \* its reports start with their number
    described,               \* hid_open_path() was told its descriptor
    uses_numbered_reports,   \* and what it made of that
    arrived, ring,           \* reports sent, and those that the kernel keeps
    pc, ask, answer, data,   \* the reader's step, its timeout, what it returns
    read_pending, request, read_buf, event   \* Windows: the overlapped read

listing == <<bus, query, records>>
device  == <<plugged, numbered, described, uses_numbered_reports>>
reader  == <<pc, ask, answer, data>>
overlapped == <<read_pending, request, read_buf, event>>
vars == <<platform, listing, handle, device, arrived, ring, reader, overlapped>>

Nothing  == 0
Error    == -1
NoAnswer == -2
Asks     == {"wait", "timed", "poll"}
Linux    == platform \in {"linux", "old linux"}
-------------------------------------------------------------------------------
(***************************************************************************)
(* uses_numbered_reports(): the descriptor is a string of items, each with  *)
(* a key byte that tells how many bytes of data follow.                     *)
(***************************************************************************)
ReportIdKey == 133
short_sizes_3(code) == code                                     \* variant
short_size(code) == IF code = 3 THEN 4 ELSE code
item_size(rd, i) ==
    IF rd[i] \div 16 = 15 THEN 3 + (IF i < Len(rd) THEN rd[i + 1] ELSE 0)
    ELSE 1 + short_size(rd[i] % 4)
has_report_id(rd) ==
    LET from[i \in Nat \ {0}] == i <= Len(rd) /\ (rd[i] = ReportIdKey \/ from[i + item_size(rd, i)])
    IN from[1]

Bytes(items) == FlattenSeq([i \in DOMAIN items |-> <<items[i].key>> \o items[i].data])
Numbered(items) == \E i \in DOMAIN items : items[i].key = ReportIdKey

\* The systems make no device of a descriptor that is not a string of whole items:
\* a short one has as much data as its key tells, a long one as its first byte.
IsLong(item) == item.key \div 16 = 15
IsItem(item) ==
    /\ item.key \in 0..255 /\ item.data \in Seq(0..255)
    /\ IsLong(item) => item.data # << >> /\ Len(item.data) = 2 + item.data[1]
    /\ ~IsLong(item) => Len(item.data) = <<0, 1, 2, 4>>[(item.key % 4) + 1]
ASSUME DescriptorsAssumption ==
    \A items \in Descriptors : items \in Seq(ToSet(items)) /\ \A item \in ToSet(items) : IsItem(item)
\* Devices of Linux are on one of three kinds of bus.
ASSUME BusesAssumption ==
    \A b \in Buses : b \in Seq(ToSet(b)) /\ \A d \in ToSet(b) : d.bus \in {"usb", "bluetooth", "other"}
ASSUME HidFilesAssumption == MaxReports \in Nat /\ Buffers \in Nat \ {0}

\* A report as the device sends it, and as the kernel hands it out: Linux before
\* 2.6.34 puts the number of a numbered report twice, Windows puts a 0 before
\* the others.
Id == 7
Sent(n) == IF numbered THEN <<Id, n>> ELSE <<n>>
Raw(n) == IF platform = "old linux" /\ numbered THEN <<Id>> \o Sent(n)
          ELSE IF platform = "windows" /\ ~numbered THEN <<0>> \o Sent(n)
          ELSE Sent(n)

\* what hid_read_timeout() makes of it
unchopped(raw) == raw                                           \* variant
chopped(raw) ==
    IF platform = "old linux" /\ uses_numbered_reports THEN Tail(raw)
    ELSE IF platform = "windows" /\ Head(raw) = 0 THEN Tail(raw)
    ELSE raw
-------------------------------------------------------------------------------
Init ==
    /\ platform \in Platforms
    /\ bus = << >> /\ query = Null /\ records = NoRecords
    /\ handle = "none"
    /\ plugged = TRUE /\ numbered = FALSE /\ described = TRUE /\ uses_numbered_reports = FALSE
    /\ arrived = 0 /\ ring = << >>
    /\ pc = "idle" /\ ask = "wait" /\ answer = NoAnswer /\ data = << >>
    /\ read_pending = FALSE /\ request = "none" /\ read_buf = Nothing /\ event = FALSE

\* hid_open(), or a caller that lists the devices and opens one of them
Enumerate ==
    /\ handle = "none"
    /\ handle' = "listed"
    /\ bus' \in Buses /\ query' \in Queries
    /\ records' = hid_enumerate(platform, bus', query'.vid, query'.pid)
    /\ UNCHANGED <<platform, device, arrived, ring, reader, overlapped>>

\* hid_free_enumeration(), after hid_open_path()
ListFreed == bus' = << >> /\ query' = Null /\ records' = NoRecords

Path == path_to_open(records, bus, query.vid, query.pid, query.serial)

\* there is none, or it is gone, or it cannot be opened or, on Windows, asked
OpenFails ==
    /\ handle = "listed"
    /\ handle' = "failed"
    /\ ListFreed
    /\ UNCHANGED <<platform, device, arrived, ring, reader, overlapped>>

\* hid_open_path(); Linux opens the device whether or not it tells the descriptor,
\* and Windows does not use it
OpenPath ==
    /\ handle = "listed" /\ Path # NoPath /\ platform # "osx"
    /\ handle' = "open"
    /\ described' \in BOOLEAN /\ (~Linux => described')
    /\ \E items \in Descriptors :
         /\ numbered' = Numbered(items)
         /\ uses_numbered_reports' = (Linux /\ described' /\ has_report_id(Bytes(items)))
    /\ ListFreed
    /\ UNCHANGED <<platform, plugged, arrived, ring, reader, overlapped>>
-------------------------------------------------------------------------------
\* The device sends a report: to the buffer of the request that waits for one,
\* or to the kernel's, which drops the newest on Linux and the oldest on Windows
\* when it is full.
Arrive ==
    /\ handle = "open" /\ plugged
    /\ arrived < MaxReports
    /\ arrived' = arrived + 1
    /\ IF request = "pending"
       THEN /\ request' = "done" /\ event' = TRUE /\ read_buf' = arrived'
            /\ UNCHANGED <<ring, read_pending>>
       ELSE /\ ring' = IF Len(ring) < Buffers THEN Append(ring, arrived')
                       ELSE IF Linux THEN ring ELSE Append(Tail(ring), arrived')
            /\ UNCHANGED overlapped
    /\ UNCHANGED <<platform, listing, handle, device, reader>>

Unplug ==
    /\ handle = "open" /\ plugged
    /\ plugged' = FALSE
    /\ IF request = "pending"
       THEN request' = "failed" /\ event' = TRUE /\ UNCHANGED <<read_pending, read_buf>>
       ELSE UNCHANGED overlapped
    /\ UNCHANGED <<platform, listing, handle, numbered, described, uses_numbered_reports,
                   arrived, ring, reader>>
-------------------------------------------------------------------------------
\* hid_read() and hid_read_timeout()
Call ==
    /\ handle = "open" /\ pc = "idle"
    /\ ask' \in Asks
    /\ pc' = IF platform = "windows" THEN "start" ELSE IF ask' = "wait" THEN "read" ELSE "poll"
    /\ UNCHANGED <<platform, listing, handle, device, arrived, ring, answer, data, overlapped>>

Answer(a) ==
    /\ pc' = "done"
    /\ answer' = a
    /\ data' = IF a > 0 THEN chopped(Raw(a)) ELSE << >>
    /\ UNCHANGED <<platform, listing, handle, device, arrived, ask>>

\* poll(): the file is readable, or has an error when the device is gone, or both
PollReadable ==
    /\ pc = "poll" /\ ring # << >>
    /\ pc' = "read"
    /\ UNCHANGED <<platform, listing, handle, device, arrived, ring, ask, answer, data, overlapped>>

PollError ==
    /\ pc = "poll" /\ ~plugged
    /\ Answer(Error)
    /\ UNCHANGED <<ring, overlapped>>

\* the time is up, which for a poll it always is
PollTimeout ==
    /\ pc = "poll" /\ plugged /\ ring = << >>
    /\ Answer(Nothing)
    /\ UNCHANGED <<ring, overlapped>>

\* read(), which waits
Read ==
    /\ pc = "read"
    /\ \/ ring # << >> /\ Answer(Head(ring)) /\ ring' = Tail(ring)
       \/ ring = << >> /\ ~plugged /\ Answer(Error) /\ UNCHANGED ring
    /\ UNCHANGED overlapped
-------------------------------------------------------------------------------
Next_step == IF ask = "wait" THEN "result" ELSE "wait"

\* an overlapped read is under way since an earlier call
GoOn ==
    /\ pc = "start" /\ read_pending
    /\ pc' = Next_step
    /\ UNCHANGED <<platform, listing, handle, device, arrived, ring, ask, answer, data, overlapped>>

\* or one is started with ReadFile(), after ResetEvent()
kept_event == event                                             \* variant
reset_event == FALSE
Start ==
    /\ pc = "start" /\ ~read_pending /\ plugged
    /\ pc' = Next_step
    /\ read_pending' = TRUE
    /\ IF ring = << >>
       THEN request' = "pending" /\ event' = reset_event /\ UNCHANGED <<read_buf, ring>>
       ELSE request' = "done" /\ event' = TRUE /\ read_buf' = Head(ring) /\ ring' = Tail(ring)
    /\ UNCHANGED <<platform, listing, handle, device, arrived, ask, answer, data>>

StartFails ==
    /\ pc = "start" /\ ~read_pending /\ ~plugged
    /\ Answer(Error)
    /\ event' = reset_event
    /\ UNCHANGED <<ring, read_pending, request, read_buf>>

\* WaitForSingleObject() takes the event
EventSet ==
    /\ pc = "wait" /\ event
    /\ pc' = "result"
    /\ event' = FALSE
    /\ UNCHANGED <<platform, listing, handle, device, arrived, ring, ask, answer, data,
                   read_pending, request, read_buf>>

TimeoutCancelling ==                                            \* variant
    /\ pc = "wait" /\ ~event
    /\ Answer(Nothing)
    /\ read_pending' = FALSE
    /\ UNCHANGED <<ring, request, read_buf, event>>
Timeout ==
    /\ pc = "wait" /\ ~event
    /\ Answer(Nothing)
    /\ UNCHANGED <<ring, overlapped>>

\* GetOverlappedResult(), which waits, and may take the event when it had to
Result ==
    /\ pc = "result" /\ request \in {"done", "failed"}
    /\ Answer(IF request = "done" THEN read_buf ELSE Error)
    /\ read_pending' = FALSE
    /\ request' = "none"
    /\ read_buf' = Nothing
    /\ event' \in {FALSE, event}
    /\ UNCHANGED ring

Return ==
    /\ pc = "done"
    /\ pc' = "idle"
    /\ answer' = NoAnswer /\ data' = << >>
    /\ UNCHANGED <<platform, listing, handle, device, arrived, ring, ask, overlapped>>

\* hid_close(): CancelIo() ends the request of the thread that made it
Close ==
    /\ handle = "open" /\ pc = "idle"
    /\ handle' = "closed"
    /\ ring' = << >>
    /\ read_pending' = FALSE /\ request' = "none" /\ read_buf' = Nothing /\ event' = FALSE
    /\ UNCHANGED <<platform, listing, device, arrived, reader>>
-------------------------------------------------------------------------------
Step == PollReadable \/ PollError \/ PollTimeout \/ Read
        \/ GoOn \/ Start \/ StartFails \/ EventSet \/ Timeout \/ Result \/ Return

Next == Enumerate \/ OpenFails \/ OpenPath \/ Arrive \/ Unplug \/ Call \/ Close
        \/ PollReadable \/ PollError \/ PollTimeout \/ Read
        \/ GoOn \/ Start \/ StartFails \/ EventSet \/ Timeout \/ Result \/ Return

Spec == Init /\ [][Next]_vars

\* the reader goes on when it can, and time passes
FairSpec == Spec /\ WF_vars(Step)
-------------------------------------------------------------------------------
\* What a platform can tell of, and what of that is asked for.  Windows lists the
\* devices of the HIDClass that have a driver.
Tellable(d) ==
    CASE platform = "windows" -> d.detail /\ d.class = "bound" /\ d.opens
      [] platform = "osx" -> TRUE
      [] OTHER -> /\ d.hid /\ {"id", "name", "uniq"} \subseteq ToSet(d.uevent)
                  /\ d.bus = "bluetooth" \/ (d.bus = "usb" /\ d.usb)
Wanted(n) == Tellable(bus[n]) /\ Matches(query.vid, query.pid, bus[n])

\* Windows has a driver bound to all of the devices, or to none.
AllOrNoneBound ==
    platform = "windows" =>
        \A m, n \in DOMAIN bus : bus[m].class = "bound" <=> bus[n].class = "bound"

\* The list has its records in order, each once, and the records of no others are
\* left behind: a record that was taken back is neither reachable nor still
\* allocated.  They are those of the devices that are asked for and that the
\* platform can tell of, on Windows as long as the drivers are all bound or none is.
ListIsExact == handle = "listed" =>
    LET chain == Chain(records)
    IN /\ ToSet(chain) = records.alive
       /\ \A i, j \in DOMAIN chain : i < j => chain[i] < chain[j]
       /\ AllOrNoneBound => records.alive = {n \in DOMAIN bus : Wanted(n)}

\* A device that Windows lists is of the HIDClass and has a driver bound to it
\* (hid_windows.c:345-368).
ListedAreBound ==
    handle = "listed" /\ platform = "windows" => \A n \in records.alive : bus[n].class = "bound"

\* What a read has to return: what was sent, or with its number twice where an old
\* Linux puts it so and hid_open_path() was not told that the reports have one.
Misread == platform = "old linux" /\ numbered /\ ~described
Due(n) == IF Misread THEN Raw(n) ELSE Sent(n)

\* A read returns the bytes that the device sent, its number first if it has
\* one, whatever the kernel added; on Linux that takes a correct idea of whether
\* the descriptor has a Report ID among its items, not among their data.  When an
\* old Linux did not tell the descriptor, the number is there twice.
ReportsAreExact == answer > 0 => data = Due(answer)

\* A read returns when it need not wait, and when the device is gone: none waits
\* for the event or the request of an earlier one.
ReadsReturn == (pc # "idle" /\ (ask # "wait" \/ ~plugged)) ~> pc = "idle"

\* The stream as the thread that reads sees it: a report in the buffer of a
\* request that is done comes before those that the kernel keeps.
Pending == (IF request = "done" THEN <<read_buf>> ELSE << >>) \o ring
Live == handle = "open" /\ plugged
Phase == IF pc \in {"idle", "done"} THEN pc ELSE "called"
OfReader(x) == [r \in {Reader} |-> x]

Stream == INSTANCE HidStream WITH
    Readers <- {Reader}, Capacity <- Buffers, Room <- Buffers + 1,
    pending <- Pending, live <- Live, phase <- OfReader(Phase),
    ask <- OfReader(ask), answer <- OfReader(answer)

\* A device is the stream of reports that hidapi promises: a read that gave up
\* has lost no report to the request it left.
ImplementsStream == Stream!Spec
===============================================================================
