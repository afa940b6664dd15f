# RemoteLedControl: verification project

The program is an Arduino sketch for an ESP32 that switches a water pump and a
light. It reads the time from NTP, fetches timers from an ASP.NET server, polls
that server for its status, and answers HTTP requests from phones on the same
network (`src/README.md:3-5`). It lives in `src/RemoteLedControl/`; everything
under `src/Libraries/` is vendored. Line numbers below without a file are those
of `RemoteLedControl.ino`.

The project models the sketch, and of each library the part that the sketch
runs. The questions it asks are: who may move the pump and when, what clients
are told of it, what the timer means against the calendar, what the two FreeRTOS
tasks do to the globals they share without a lock, what survives a loss of power,
and what the libraries promise when networks, servers, sensors and clients do
not behave: a broken answer, a late time packet, a refused association, a sensor
pulled out, a client that never stops asking.

## 1. Inventory

| part | code | state it keeps | operations |
|---|---|---|---|
| Loop task | `setup` 368-417, `loop` 420-426, the handlers 69-276, `UpdateDateTime` 278-304, `StateUpdate` 348-366 | the pins, `isPumpOn`, `isLightOn`, `hasTimerBeenSet`, `State`, `shouldTick`, `workTimeDelta`, `prevSecond`, `Now`, `timer` | setup; per pass: read the clock, at most one web request, run the timer state |
| TempReader task | `UpdateStatus` 136-152, `GetStatusFromServer` 154-181 | `refreshRate`, `temp` | count down, read the sensor, poll the server |
| Calendar | `DateTime.h` | six ints | `UpdateTime`, `IsToday`, `CompareDayTime`, `CompareTime` |
| JSON document | `doc` 21, `ArduinoJson.h` | one global document | `deserializeJson`, member reads |
| Device identity | `GetDeviceID` 306-325, `PostNewDevice` 327-346, `setup` 375-393, `Preferences.cpp` | `deviceId`, the key in flash | restore, announce, ask, store |
| Configuration portal | `WiFiManager.cpp`: `autoConnect`, `startConfigPortal`, `processConfigPortal`, `shutdownConfigPortal`, `connectWifi`, `WiFiEvent`, the page handlers | credentials in flash and entered, station and access point, retry counters | join, wait for a client, save, exit, erase, restart |
| HTTP client | `HTTPClient.cpp` | connection, framing of the answer | `GET`, `getString`, reading a header, a block, a chunk |
| NTP client | `NTPClient.cpp` | last epoch and the `millis()` it belongs to | `update`, `forceUpdate`, `getEpochTime` |
| Temperature sensor | `OneWire.cpp`, `DallasTemperature.cpp` | search state (`LastDiscrepancy`, `LastDeviceFlag`, `ROM_NO`), `devices` | `begin`, `requestTemperatures`, `getTempCByIndex`, `search` |
| Web server | `ESP8266WebServer-impl.h`, `Parsing-impl.h`, `WiFiServer.cpp` | `_currentClient`, `_currentStatus`, `_keepAlive`, connections nobody serves yet | `handleClient`, `send` |
| Wi-Fi wrapper | `WifiConnector.h` | - | included for WiFiManager; the class is never used |
| Command table | `ApiParser.h`, `Delegate.h` | list of commands | not included by the sketch |
| State classes | `States.h` | - | not included; its base `StateMachine.h` is missing |
| WiFi stack of the ESP8266, library examples and tests | `src/Libraries/` | - | not compiled for the ESP32 |
| Server, clients, wall clock, mains power | outside | - | answer, ask, pass, fail |

**How the parts interact.** Both tasks have priority 1 and run on core 1; they
are time-sliced. They share every global, with no lock and nothing `volatile`:
`doc`, `workTimeDelta`, `isPumpOn` and `isLightOn` are written by both. A task
blocks at each HTTP request. Clients reach the loop task through the web server,
which runs at most one handler per pass. A handler that needs the server
(`/dateTime`, `/toggleTimer`) answers its client first and blocks afterwards.
RAM is rebuilt by `setup()`; kept across power cycles are `deviceId`
(Preferences) and the network's credentials (the WiFi driver's own flash).
The drivers have tasks of their own: WiFi events change the portal's retry
counters while the loop task waits in `connectWifi`.

**What is hard.** The tasks interleave between any two statements. Answers
arrive after the state they were asked in has gone. The clock is read in four
calls while time passes. Requests fail, and the code after a failure has its own
view of the relay. An error page parses to a document without members, which
reads as zeros. The date is compared component by component. Power may fail
anywhere. `PROJECT.json` lists each hazard at its line with the properties about
it.

**What makes each part correct.** *Loop task:* only the user's command, the
timer that is followed, and a restart move the pump; it never starts early; the
countdown never outruns the clock; what clients are told is what the pins do; a
client's command is served. *TempReader:* the device keeps polling. *Calendar:*
`CompareTime` grants only timers that have come and agrees with calendar order
on the day. *Document:* a handler disturbed by the other task does not act on
what it pieced together, as long as the other task was not parsing during its
last read; what is read of a broken answer is no other timer.
*Identity:* the id in use is the id in flash unless the flash driver failed, and an
outage does not lose it.
*Portal:* joining ends however often a router refuses; a waiting portal is not
disturbed by its own station; the network that was joined is the one in flash.
*HTTP client:* an answer that was delivered is read whole, a request ends.
*NTP client:* the clock is never far ahead, behind by no more than a late answer,
and goes back a little at most. *Sensor:* a search returns a device that is there
and visits each once; a reading is of this pass. *Web server:* answers come in
the order of the requests, none is lost, and nobody starves.

## 2. Modules

| module | what it is |
|---|---|
| `DateTime` | the comparisons of `DateTime.h` as operators, and `SameMinuteOrLater`, plain chronological order, as the reference |
| `DueCheck` | `Now` and `timer` changing in any legal way; what `CompareTime`'s answer means |
| `PumpAuthority` | abstract specification: the pump has a holder (nobody, the timer, or the user with his order), only the holder moves it, and a device that goes down opens it |
| `Controller` | both tasks, the web server, clients, the clock and power, whole answers at a time; refines `PumpAuthority` |
| `SharedDoc` | the two tasks statement by statement on `doc` and `workTimeDelta` |
| `DeviceIdentity` | `deviceId` in RAM and flash over boots |
| `ConfigPortal` | `autoConnect`: the stored network, the portal and its requests, the driver's events |
| `Boot` | `setup()`: `ConfigPortal` and then `DeviceIdentity`, over any number of boots; implements `DeviceIdentity` |
| `JsonDoc` | what `deserializeJson` leaves in the document, as a function of a text that may end anywhere |
| `Fetch` | one request after the other over a connection that may break anywhere; parses with `JsonDoc` |
| `Ntp` | `NTPClient` over UDP and a `millis()` that wraps |
| `OneWire` | the search on a bus whose devices come and go, as actions |
| `Thermometer` | `DallasTemperature` and the TempReader task over `OneWire` |
| `WebServer` | `handleClient` with several connections, and the sketch's unsolicited answers |
| `MCDueCheck`, `MCController`, `MCSharedDoc`, `MCBoot`, `MCFetch`, `MCNtp`, `MCThermometer`, `MCWebServer` | constants for TLC |
| `MCClaims` | what `src/README.md` says of the pump and the sketch does not do |
| `DueCheckProofs`, `ControllerProofs` (with the refinement), `SharedDocProofs`, `BootProofs`, `NtpProofs`, `ThermometerProofs`, `WebServerProofs`, `FetchProofs` | the proofs |

### Controller

A variable of the module is the global of the same name; `pumpPin` and
`lightPin` are GPIO 4 and 16 (the relays close on `LOW`). `loopPc` and `taskPc`
say where the tasks are: a handler up to its request is one action
(`GetCurrentTimer`, `ToggleTimer`, `TimerSpent`), the code after the answer
another (`CurrentTimerAnswered`, `RemainingTimeAnswered`, `NextTimerAnswered`,
`SetupStatusAnswered`, `PollAnswered`), and between the two the other task, the
clock, the clients and a loss of power may act. Each of those answers may be any
document of its reply set, or a failure (`code <= 0`), or an error page (the
document of zeros, put into the reply set).

`StateUpdate` is four actions for its four paths. `TimerSpent` stops inside
`GetNextTimer`: `isPumpOn` is already false and the relay still closed.
`UpdateDateTime` picks four instants, for the date, the hour, the minute and the
second, in the order of the code. `Clock` is a constant function from the second
of the wall clock to what NTP shows. `answer` is the last body sent in this
pass, as the list of facts in it.

Four variables are history and are read by properties only: `command` (the user
command in force), `fromServer` (which flags a poll wrote last), `ticks` and
`bootWall`.

Left out of `Controller`: the temperature value; `isTimerActive`,
`wasRequestBeforeTimer`, `onSetupTimer`, `longDeltaTime` and the other globals
that nothing reads; the log; who gets the answers sent outside of a request (251,
224 in `setup`), which `WebServer` has; corrections by which NTP moves the clock
back, which `Ntp` has; the pace of the tasks (`delay(1000)`); the width of `int`
(`workTimeDelta *= 60` overflows from 35 791 395 minutes on, which the model does
not show).

### SharedDoc

Each statement of `GetCurrentTimer`, `GetNextTimer`, `GetRemainingTime`,
`GetStatusFromServer` and the countdown that touches `doc` or `workTimeDelta` is
one action or more: `workTimeDelta *= 60` and `workTimeDelta--` are a load and a
store, `x = doc["x"]` is looking the member up and taking its value, and
`deserializeJson` has a beginning (`ClearDoc`) and an end (`FillDoc`). The other
task may run between any two of them: on the ESP32 the tasks have equal priority
and are sliced by the tick. An answer is a function from names to values, and a
member that is missing reads as 0 or false. Of `workTimeDelta` the model keeps the
unit, not the number.

`deserializeJson` clears the document by resetting pointers, uses the same slots
again, and gives a slot first its place in the list, then its key and then its
value (`ArduinoJson.h` 1214, 3788, 6183). A handler follows that list and holds a
pointer to a slot until it has taken the value. What it takes when the other task
was inside `deserializeJson` at any moment between the beginning of the look-up
and the taking of the value is therefore left open: any value of `Values`, that of
another member and the old one included (`torn`, `taskTorn`). If one
task begins to parse while the other is inside, both add to one list, and the
document is `damaged`: every read of it is torn until a `deserializeJson` begins
that finds the other task outside. That a damaged list might also be endless, and a read of
it never return, is not modelled. `misread` and `taskMisread` are history: a
member before the last was read that differs from the answer being handled.

The properties speak of handlers whose last read was not torn. Of the others
nothing can be said: a poll between looking up `isActive` and taking its value
lets a timer that was sent as inactive be armed, `isLightActive` in place of
`isActive`, and no code notices.

### DeviceIdentity

`setup()` from `autoConnect` to the end of `GetDeviceID`, with `putInt`'s set and
commit as two steps. The namespace is open when `GetDeviceID` opens it again;
`begin` refuses and the sketch ignores that. The server gives any id it likes on
each announcement, and may answer with a page that `toInt` reads as 0.

Every call of the flash driver may fail (`LoadId`: `nvs_open`, `nvs_get_i32`;
`BeginAgain`: `nvs_open`; `PutInt`: `nvs_set_i32`; `Commit`: `nvs_commit`).
`Preferences` logs the error and returns the default or 0, and the sketch goes on:
a failed load makes the device ask under id 0, and a failed set or commit leaves
an id in RAM that flash does not have, or has in spite of the error. `failed` is
history: a call failed in this boot and the id has not been stored since. A
`putInt` on a namespace that is not open (`PutRefused`) does not set it, so that
the property still says that the namespace is open when it must be.

### ConfigPortal and Boot

`at` follows `autoConnect`: joining a network (`AttemptJoins`, `AttemptFails`,
and `GivesUp` when the attempts are over), waiting at the portal (`Pass`: one
request, then what it asked for), shutting down, back. Requests come in
any order and number. `sta` is the station: off, on and looking, or joined; the
driver may join or lose the network at any moment while it is on. `WiFiEvent` is
the handler that runs in the driver's task and raises `_connectRetries` by four
while `connectWifi` counts `retry`, both `uint8_t`; a router that refuses again
and again makes up to 253 attempts of the 1 that was configured. `adrift` is
history: the network was lost or an erase failed half-way, for which the portal
is not to blame; `net` is the network that the station joined last, and `erased`
says that an erase failed half-way after that. A save that is accepted in the last request of
`shutdownConfigPortal` is answered as saved, and lost.

`Boot` composes: `setup()` does not look at `autoConnect`'s answer, and whether
the requests for the id succeed depends on the station at that time
(`Identify`). `BootImplementsIdentity` proves that the composition implements
`DeviceIdentity`, whose properties therefore hold of it.

### JsonDoc and Fetch

A text is a sequence of pieces, three to a member: its key and the two digits of a
number, or the first letter and the rest of `true` and `false`. `Reads` is the
state of the parser after each piece and `Parse` the document at the end, for a
text that may end anywhere: a number that is cut is stored as far as it goes, a
member whose key or slot does not fit the pool (`Capacity`) stops the parser, and
so does a page that is no JSON. Both are recursive functions, so that they can be
proved about.

`Fetch` sends such a text as a stream of a header and pieces, whole or in chunks
with their sizes; a header and a chunk's size arrive whole. `RepliesAssumption`
says how a stream is framed, for chunks of any size. `arrived` counts what is
there and `taken` what has been read of it, and the connection may break, or a
wait time out, anywhere between. The sketch ignores `err` and what
`writeToStream` returns inside `getString`, so whatever arrived is parsed and
used. `HangUp`, `Fail` and `Finish` are the three ends of a request.

### Ntp

Time is counted in ticks of 10 ms. `update` asks when its interval is over, throws
away what is in the socket's buffer and polls up to `Tries` times; a packet on its
way may be lost, come late, or come when the next request has been sent.
`Answered` dates the time back by the number of polls, as `forceUpdate` does,
though a poll may take longer than 10 ms (`MaxPoll`). `millis()` is taken modulo
`Wrap` and all subtractions are unsigned. `worn` is history: no answer has come
for as long as `millis()` lasts.

`Ntp` is what stands behind `ClockAssumption` of `Controller`. `update` runs only
at the start of a pass (422, 281), so a step of the clock never falls inside a
reading of it; but between two passes the displayed time may go back by less
than `Lag + Lead`, about 4 s with the code's numbers if an answer is under way for
2 s, and each such step lets the countdown count one second more. The proofs
about `Controller` hold between two corrections.

### OneWire and Thermometer

The bus is a set of devices that all answer together. `StartSearch`, `SearchBit`
and `LastBit` are `search` bit by bit; a device that is pulled out stops
listening, one that is plugged in does not take part until the next reset.
`Thermometer` has `begin()` in `setup()` (which is skipped when `autoConnect`
returns FALSE, 381-389) and the pass of the TempReader task: convert, wait at
most 750 ms, look for the first sensor, read it. A sensor holds the power-on
value, a value of an earlier pass ("busy") or one of this pass ("fresh").

### WebServer

One call of `handleClient` is one action (`HandleClient`), with the acceptance of
a connection, the reading and answering of a request, and the dropping of a
client in the order of the code. Connections queue in `unclaimed`. `age` is the
time since `_statusChange`, as far as the two limits (2 s, 5 s) tell it apart.
A request arrives whole, or its line first and the rest in time, late or never;
one that is late is served without its headers, which are then read as a
request. `Stray` is the sketch's `server.send` outside of a request (251): it
reaches whoever is being served. The ESP32 build takes `WebServer.h` from the
core, which is not in the repository; the model is of the repository's
`ESP8266WebServer`, from which it descends, and what it shows is shown of that
code only.

## 3. Runs

| run | module, cfg | shows |
|---|---|---|
| `due_check` | `MCDueCheck` | `CompareTime` never grants a timer that has not come, is exact on the day, and stays true until midnight |
| `pump` | `MCController`, `MCController.cfg` | types; a command holds; the countdown is never fast; no early start; only the holder moves the pump |
| `reports` | `MCController`, `MCReports.cfg` | `/status`, `/lightStatus`, `/allStatus` agree with the pins unless a poll wrote the flag last; polling goes on for ever; `/pumpOff` is obeyed although the next-timer request never succeeds |
| `shared_doc` | `MCSharedDoc` | with switches anywhere: unless the read of `isActive` was disturbed itself, no timer pieced together and none that was not sent as active is armed; unless that of `refreshRate` was, a disturbed poll is repeated |
| `boot` | `MCBoot` | the id in use is the one in flash unless the flash driver failed, and survives outages; joining ends and its counter does not wrap; the portal is undisturbed; the network that was joined is the one in flash |
| `fetch` | `MCFetch` | an active timer read of a broken answer is exact in all that came before `isActive`; a delivered answer is whole; no member reads as more than was sent; a request ends or the server holds it |
| `ntp` | `MCNtp` | the clock is not far ahead, not further behind than a late answer, and steps back a little at most |
| `thermometer` | `MCThermometer` | a search returns one connected device; `begin` finds each once and ends; no old reading but after a timeout |
| `web_server` | `MCWebServer` | answers in order; no request lost on a connection that was promised; no client starves |
| `claim_*` | see section 6 | what the code does not do |

**Bounds, and why they are enough.**
`MCDueCheck` takes two values of each component (three hours), so each component
may be less, equal or greater independently, and the document of zeros;
`CompareTime` and the reference only compare.
In `MCController` a minute has two seconds and an hour two minutes, and the four
seconds of the run cross minute, hour, day, month and year (`MaxWall = 4`,
starting two minutes before the end of 2022), so that each piece of the clock
can change between two reads (`ReadSpan = 1`). `SecondsPerMinute = 2` (the code's
60) makes one minute of run time end inside the run and still take two ticks;
`Backoff = 1` (the code's 3000) makes a failed poll come back.
The timers of run `pump` are one for the last minutes of the year, one for the
next morning, and an error page; status answers ask for the pump and for a run of
one minute. `reports` has every route but the two that only start or arm the
pump, which `pump` has. There the clock is read at one instant (`ReadSpan = 0`),
because no report depends on it.
`SharedDoc` needs no bound: units are finite. Its answers are a complete document
of each kind, active and inactive, and an error page; the order of members in an
answer cannot be seen. Three values, 0 among them, tell a missing member, a wrong
one and a right one apart. `claim_in_seconds` runs under `UndisturbedSpec`, the
behaviours of `Spec` in which no read is torn and no document damaged, so that its
counterexample does not rest on a value left open.
`Boot` has two ids besides 0, a network that exists and one that does not, and
`Wrap = 16` for 256: four raises of the limit reach its end as 64 do in the code
(the theorem is about every multiple of four).
`Fetch` has documents of up to three members with `isActive` first, between and
last, numbers of two digits (so that one can be cut), chunks of two pieces (which
split a member) and of four, and a pool in which two members fit and the third does not.
`Ntp` has `Tries = 2` for 100 and an interval of 6 ticks, so that the 20 ticks of
the run hold three requests, and `millis()` wraps at 12, in the middle of it.
A request may be under way for any time, so that its answer meets a later one.
`Thermometer` has addresses of three bits and five sensors that differ in the
first, the second and the last bit, so that searches branch at each position and
twice on one path, and two changes of the bus, which is what it takes to pull out
a sensor and put in another during one search. `CountRange = 4` for the 256 of
`devices` (`uint8_t`), so that the count of five sensors wraps.
`WebServer` has two clients, who may come again when they have been dropped, and
two requests or pieces on the way on each connection, so that one can be read
while the other waits; requests are not counted, so a client may ask for ever.

**Deadlock** is checked in every run. The system never stops: a pass of the loop
follows another.

**Fairness.** `FairSpec` assumes weak fairness of each task's steps. The tasks
have equal priority on one core and the scheduler takes turns. That every HTTP
request ends is an assumption on the server: `HTTPClient` waits with a timeout for
a header and a chunk size, but inside a block of data it waits as long as the
connection stays open, and `RequestsEnd` names this one exception. There is no
fairness for clients, for the clock, for power, or for the portal: `autoConnect`
waits there without a timeout, so the properties allow `loopPc = "boot"` for ever.
`BootFairSpec` is fair to `connectWifi` only, which counts its attempts whatever
the router does. `Fetch` is fair to the device, not to the server. `Thermometer`
is fair to the task. `WebServer` is fair to `handleClient`, which every pass of
`loop()` calls, and to time. Run `reports` has `NextReplies = {}`: it shows that a
server which never answers `minutesDebug` does not keep the user from switching
the pump off.

## 4. Proofs

Every safety invariant and every action property of the passing runs is proved for
every value of the constants. What is assumed of them is named, in the module
that declares them: `BoundsAssumption`, `RepliesAssumption` and `ClockAssumption`
of `Controller` (replies have the types the code reads them with; the displayed
time does not go back), `MomentsAssumption`, `SharedDocAssumption` (no status has
a member `isActive` and no other answer a `refreshRate`), `IdsAssumption`, `NetworksAssumption`,
`WrapAssumption`, `NtpAssumption`, `RomsAssumption` (finitely many sensors, each
address with a family), `ChangesAssumption`, `WebAssumption`, `SizesAssumption`
and `RepliesAssumption` of `Fetch` (no member comes twice, numbers have two
digits, and the stream is framed as HTTP frames it). TLC evaluates each of them on
the constants of the runs.

- **Calendar** (`DueCheckProofs`, `ControllerProofs`). `NeverEarly`,
  `ExactOnItsDay` and `StaysDueUntilMidnight` follow from lemmas about
  `CompareTime` on any integers. `TornReadingNotAhead` is the lemma about the
  four-piece clock: pieces taken in the order date, hour, minute, second from a
  clock that does not go back make a time that is not ahead of it. The mutant
  that asks for the date last breaks exactly this.
- **Types** (`ControllerProofs.TypeCorrect`).
- **Commands** (`ControllerProofs.CommandHolds`). `ManualCommandHolds` is not
  inductive: `StateUpdate` would move a commanded pump if the timer were followed.
  `CommandInv` adds that a command in force means `State = 0`, that
  `loopPc = "next"` means `State = 1` (so the pin that `GetNextTimer` delays is
  the timer's), and that nothing is in force at boot.
- **Countdown** (`NeverFast`). `ticks <= wall - bootWall` needs to know which
  second was seen last: `CountInv` names an instant `r` since boot at which the
  clock showed `prevSecond`, with `ticks <= r - bootWall`. A new tick needs
  another second, so a later instant. Before the first reading nothing is being
  counted.
- **Start** (`StartsInTime`). `NowInv` says that `Now`, once read, is not ahead
  of the clock; with `DueHasCome` and transitivity the relay closes in time.
- **Reports** (`ReportsAreTrue`). `ReportInv` relates flag and pin wherever the
  flag is the device's own, except at `loopPc = "next"`, where the flag is
  already false and the relay is closed; and it says that nothing is being
  reported there.
- **Refinement** (`ControllerProofs.HolderRules`). Under the mapping
  `up <- loopPc # "boot"`, `pump <- pumpPin = "LOW"`, `holder <- Holder`, initial states map to initial
  states and each step to a step of `PumpAuthority` or a stutter. It uses
  `CommandInv` and the part of `ReportInv` about `boot`.
- **Shared document** (`SharedDocProofs`). `TypeInv` includes that a document which
  is being parsed, or was parsed into by both, has no member. `ArmInv` says
  that while the handler reads, a document with `isActive` in it is the handler's
  own, that nothing was misread up to then, and that the read under way is not
  torn: whatever the poll does to the document takes `isActive` out of it, since no
  status has one. So an undisturbed read that finds `isActive` vouches for itself
  (`OnlyActiveArms`) and for everything read before it (`ArmedIsWhole`). `PollInv`
  says the same of `refreshRate` and the poll (`DisturbedIsRepeated`). This is why
  reading `isActive` and `refreshRate` last matters, and two mutants change that
  order; the third forgets to clear the document.
- **Identity** (`BootProofs`). `IdInv` says, for each step of
  `setup()`, whether the id in RAM is the one in flash or the driver has failed,
  that the namespace is open when `putInt` is reached unless opening it has failed,
  what is pending, and that an answer is handled only in a boot with the network.
  `BootImplementsIdentity` carries this over to the whole of `setup()`, failures
  included: what happens inside `autoConnect` is a stutter of `DeviceIdentity`.
- **Portal** (`BootProofs`). `RetryInv` says that the limit is 1 modulo 4, so it wraps
  from 253 to 1 and is never 255, the one value at which `retry <= limit` would
  hold for ever; `retry` stays below 255. `PortalInv` adds to the two properties
  at which places `autoConnect` can already have succeeded.
- **Clock** (`NtpProofs`). `PacketInv` says what time an answer carries,
  `AgeInv` how old it may be: at most `MaxDelay` on its way, and as much more in
  the socket as the device has slept since it last looked, because a request
  throws away what was there. With
  unsigned subtraction (`UnsignedSubtraction`) it gives `ShownInv`,
  the bounds of the clock on both sides; the step back is the sum of the two.
- **Bus search** (`ThermometerProofs`). `ListenInv` says that each device that
  still takes part agrees with the address written so far. `BitWritten` shows
  that the bit written was sent by a device, so at least one stays; at the last
  bit those who stay have the same address, so there is one. Pulling a device out
  only shrinks the set. `ConversionInv` says that behind a conversion that was
  waited for no connected sensor is converting.
- **Enumeration of the bus** (`ThermometerProofs.EveryDeviceIsCounted`).
  `EveryDeviceOnce` speaks of a search that has ended; to be inductive it needs to
  say what any number of searches has found. The searches visit a binary tree
  from left to right: `EnumInv` says that, as long as nothing is plugged or
  pulled, the devices found are those at the last address and to the left of it
  (`Before`), that `LastDiscrepancy` is the deepest branch at which the path went
  left and has devices to its right (`LastBranch`), and that this holds of a
  search under way for the bits decided so far (`Underway`). The next search
  leaves the path there, so it returns the next device; with no such branch
  nothing is to the right, and all are found. The count is the cardinality of
  what was found modulo 256: a `uint8_t` that wraps, which the theorem does not
  hide.
- **Web server** (`WebServerProofs`). `Orderly` compares what a client sent with
  what it got: as long as no stray answer intruded and no request was cut, the
  requests not yet answered are those not yet read, in order, so the next answer
  is to the first of them (`AnswersAreInOrder`). For a client that
  `handleClient` lets go while a request of it waits, `PromiseInv` says that a
  server which waits for another request (`_currentStatus` "close") has told its
  client "close" exactly if it will not keep the connection (`PromiseIsKept`).
  `TakenUp`, `Held` and `Dropped` split `HandleClient` into what it finds, and
  what it leaves behind in each of its two ends.
- **Answers** (`FetchProofs`). `Placed` says that what `getString` has read is a
  beginning of the text, and for each place of the reader where in the stream it
  stands: behind how many pieces, in which chunk, with how many of it to come.
  `Delivered` says that a connection that was closed and not cut has brought
  everything. So the document is `Parse` of a beginning of the text, and of all
  of it when nothing was cut (`Parsed`). What `Parse` makes of a beginning is a
  lemma about the parser for any list of members (`ReadsBeginning`): the members
  before the last key are there with their values, the last one with the digits
  that came, and nothing else, unless the pool was full. `ArmedTimerIsExactBefore`,
  `DeliveredAnswerIsWhole` and `NothingReadsAsMore` follow. The induction over
  the text is done with a set of numbers, the least element of its complement
  and `NatLessThanWellFounded` in place of the library's induction theorems,
  which take an operator as parameter; the recursive functions are unfolded by
  showing that a function with their equation exists.

The attempt on `Fetch` found a slip of the model: the `CASE` of `ParsePiece`
had two arms that were true at once when the parser had stopped before a key, and
TLC took the one that was meant. It is a conditional now.

**Only model-checked:** the liveness properties `PollsForever`, `PumpOffServed`,
`AttemptsEnd`, `RequestsEnd`, `BeginEnds` and `NoStarvation`, because fairness and
ENABLED are out of the prover's reach. The claims of section 6 are false, so
there is nothing to prove.

## 5. Mutants

Each checked property has a slip of the code that TLC finds: definitions named
`<action>_<slip>` above the definition they stand in for, each with a comment
that starts with "Slip". They are not part of any specification.

## 6. Where the code differs from what is said of it

| run | claim | what happens |
|---|---|---|
| `claim_metered` | a running timer is being counted (`README.md:5`) | at midnight `CompareTime` turns false, the relay stays closed and the countdown stops |
| `claim_spent` | a timer that is used up does not start the pump | line 356 closes the relay before the run time is looked at, on every pass while `GetNextTimer` fails |
| `claim_in_seconds` | the run time is in seconds (`README.md:5`) | two tasks assign one variable and multiply it in place |

Two more claims can be run by hand: with `ClaimPolledPump.cfg` that a poll which
asks for the pump makes it run (`README.md:3`; line 169 writes a flag and no pin,
and `/status` then says "on" of an open relay), and with `ClaimInactive.cfg` that
a timer sent as inactive does not start the pump (`GetNextTimer` leaves `State` at
1). Module `MCClaims` has both.

Three more consequences are visible in the models and have no run of their own.
A poll that is parsed before a handler reads `isActive` disarms an active timer
(`ArmedTimerIsWhole` is stated for what *is* armed). A poll that is parsed just
while a handler reads `isActive` may arm a timer that was sent as inactive, and two
parses at once leave a document in which anything may be read, which is why the
properties on the shared document except a last read that was disturbed. And `GetDeviceID`
takes any answer for an id, so one error page stores 0 (`OutageKeepsId` speaks of
boots without a network only).

## 7. Not modelled, and what is left

**Not modelled.** `WifiConnector`'s class, `ApiParser.h`, `Delegate.h` and
`States.h` are called by nothing, so no caller gives them a protocol. Of the
libraries, the parts that the sketch does not run are left out: TLS, redirections,
cookies and authorization in `HTTPClient`; MessagePack, arrays, strings as values
and serialization in ArduinoJson; the non-blocking portal, parameters and scans in
WiFiManager; uploads, files and authentication in the web server; alarms, parasite
power and checksums of the sensors; the encryption of `ESP8266WiFi`, which is for
another chip. Most of the 55 000 lines under `src/` are of this kind, so the
definitions cover a small share of them; the sketch's own files are covered.

**Left.** A metered run of the pump as an abstract specification, and under which
server behaviour the sketch implements it: nothing in the repository says whether
`maxRunTime` (172) is the whole run or the rest of it. The
composition of `Ntp` with `Controller`, with a clock that may step back
between two passes.
