# A TLA+ model of RClientCxx

RClientCxx is a C++ client for [Rserve](http://rforge.net/Rserve/): it keeps one
TCP connection, sends commands in the QAP1 protocol, waits for each response and
turns R objects into bytes and back. The library is a single thread that calls
the operating system; what runs concurrently with it is the network and the
server. Sources are named as in the repository, all of them in `src/`.

## Inventory

| Part (source) | State | Operations | Talks to |
|---|---|---|---|
| `RClient` (`rclient.cpp`) | `m_NetMan`, `m_pLast_response` | `login`, `shutdown`, `assign`, `eval`, `getRserveVersion`, `response_*` | calls NetworkManager; makes packets and reads responses |
| `NetworkManager` (`network_manager.cpp`) | `m_iSock`, `m_sRserve_version` | `submit`, `getVersion`, `isAuthorizationRequired`, `hasAuthorizationType`, `getKey`, the destructor; inside: `connect_to_rserve`, `send_to_rserve`, `recv_from_rserve`, `throw_network_error`, `disconnect` | sockets; throws `NetworkError` |
| Identification string (`network_manager.cpp` 67-85, 259-317) | none | `versionMatch`, the questions about attributes | - |
| `RPacket`, `QAP1Header` (`rpacket.cpp`, `qap1_header.cpp`) | header and entries, fixed at construction | construction, lengths, `isOk`, `getStatus` | EndianConverter |
| `RPacketEntry_0103` (`rpacket_entry_0103.cpp`) | `m_aEntry`, `m_isLargeData`, fixed at construction | encoding an object or a string, `toREXP` | REXP, EndianConverter |
| `REXP` and its classes (`rexp*.cpp`) | type with two flags, data, attributes | constructors, copies, `getData`, `toNetworkData`, `bytelength` | EndianConverter |
| `EndianConverter` (`endian_converter.cpp`) | none | `serialize`, `deserialize`, `swap_endian` | - |
| `NetworkError` (`network_error.cpp`) | error number and text | - | - |
| demo (`demo.cpp`) | arguments, the objects of `main` | `checkFlags`, `main`, the prints | all of RClient and REXP |
| `config.h`, `boost_endian.hpp` | - | settings | - |

What is hard here, and what each part has to get right:

- **Connection and exchange.** Sends and receives are partial; the connection may
  break between any two of them; the server may execute a request whose call
  failed; the object reconnects silently. Correct means: a response belongs to
  the request of the same call, nothing is executed twice, nothing is left in the
  streams between calls, what the object knows of the server is about the server
  it is connected to, and every call comes back.
- **Commands.** `login` needs up to four calls of NetworkManager, each of which may
  find a new server. Correct means: the login fits the session it arrives in,
  and what a command reported stays true until a call throws.
- **Codec.** Lengths are computed before the bytes are written, by code of their own,
  and two sizes of header change the offsets. Correct means: the bytes are those
  that the server would write, every length leads to the end of what it measures, and
  an object comes back as it was.
- **A consumer.** The demo runs sixteen assignments and evaluations over one session and
  one last response. Correct means: what it shows for a symbol is what it assigned
  to it, whatever class the object has, and a failure is shown as one.
- **Missing values.** A consumer chooses a value for "missing"; R has its own. Correct
  means: each side sees its own and no other value changes.

`PROJECT.json` lists every hazard at its line with the properties that cover it.

## Modules

```
  RserveCall  <-- implemented by --  RserveSession  <-- implemented by --  NetworkManager
     ^ used by                                                               | EXTENDS
   RClient  <-- EXTENDS -- Demo                                     RPacket, RserveID
                            | EXTENDS
  ConsumerData --EXTENDS--> REXP --> EndianConverter <-- QAP1Header
                             ^                              ^
  RPacketEntry --> EntryLayout <--------EXTENDS------- EntryExchange
```

`RClient`, `Demo`, `ConsumerData` and `EntryExchange` are about any codec: what is recursive in the way
from an object to bytes and back is a parameter of theirs. `MCRClient`, `MCDemo`, `MCConsumerData` and
`MCEntryExchange` put the codec of `RPacketEntry` there: the
entries that travel are its bytes, and what `eval` returns is what it reads from them.

| Module | What it is |
|---|---|
| `RserveID` | the identification string as a record; `versionMatch` and the questions about attributes |
| `RPacket` | lengths of packets and entries |
| `NetworkManager` | connect, send and receive loops, `submit`, `disconnect`, with the network and the server |
| `RserveSession` | abstract: numbered calls over sessions; what a caller is promised |
| `RserveCall` | abstract: the same for a caller that keeps no history |
| `RClient` | the commands over `RserveCall`, for any codec, with R's workspace and logins as the server |
| `Demo` | the demo on top of `RClient`, for any codec |
| `EndianConverter`, `QAP1Header`, `REXP` | numbers, headers of packets and objects, as operators |
| `EntryLayout` | the parts of an entry: headers, symbols, strings, the data of arrays |
| `RPacketEntry` | whole objects, with attributes and members, and the layout that `parseREXP` expects of the server |
| `EntryExchange` | the life of one object: encode or receive, then parse |
| `ConsumerData` | a vector with missing values to R and back, copied or not |
| `NetworkManagerProofs`, `RClientProofs`, `DemoProofs` | the theorems about `NetworkManager`, `RClient`, `Demo` |
| `CodecProofs` | those about `EndianConverter`, `QAP1Header` and R's missing value of doubles |
| `EntryExchangeProofs`, `ConsumerDataProofs` | those about `EntryExchange` with `EntryLayout`, and `ConsumerData` |
| `RserveSessionProofs`, `NetworkManagerRefinement` | the proofs of the two implementations in the diagram |
| `MC*` | instances for TLC |

### NetworkManager

`pc` names the place of the one thread: `socket`, `getaddrinfo`, `findConnection`,
`recvID` (`connect_to_rserve`), `query` (the questions), `sendHeader`, `sendEntry`,
`recvHeader`, `recvEntryHeader`, `recvLargeHeader`, `recvData`, `return`
(`submit`), `idle` between calls and `destroyed`. Each system call is a step; each
computation between two of them is a step (`ParseHeader`, `ParseEntryHeader`, ...).
`i`, `bytesRead`, `responseLength`, `entrylist` are the variables of the code.

- *Bytes* are counted in units; the lengths of headers and words are constants. A
  packet of a few units has every boundary that one of kilobytes has.
- *Streams.* `toServer` counts the request that the server assembles, `backlog` are the complete ones before it that
  wait for their answers, and `toClient` holds frames (the identification, responses). The client interprets the next bytes
  whatever they are. When these are not what its loop stands for (`from = Nobody`),
  what they seem to say is any of `Responses`' headers: this is how a session out
  of step shows. A server that assembles bytes of two calls (`framed` is FALSE) may
  answer with anything (`ServerMisreads`).
- *Breaks.* The peer may close (`fin`: what was sent can still be read) or reset (`rst`)
  at any time (`ConnectionBreaks`). A request completely sent on a connection that
  is gone is `stranded` and may still be executed. A connection that delivers a part
  before it closes is a reset after that part was read.
- *EINTR* repeats the system call with the same arguments: a stuttering step.
- *Sockets* are named by the call that obtained them, since no call obtains two.
- *Lengths* of entries are cut off at `LengthLimit`, the 32 bits of `RPacketEntry_0103::getLength`: of a longer entry the
  constructor of a packet counts the rest, and `submit` sends as much. A response may have longer ones: its
  lengths are the server's.
- *Allocations* may throw at the places in `AllocFailsAt`. `BadAllocConnected`: a buffer, a copy, a string returned, the
  text that describes what is sent or received, or one made before `throw_network_error` is entered; the call ends and nothing
  closes the connection, as in the code. `BadAllocDisconnected`: the exception itself or its text, after
  `throw_network_error` has disconnected; the call ends by `bad_alloc` without a connection.

### RClient

`at` is the place in a command: the question `login` asks next, `submit`, or `idle`.
Between two calls of NetworkManager the connection may end (`RserveCall`'s actions).
The server is modelled from how the client uses it: each session has a workspace
that starts empty, and refuses commands before a login if its identification asks
for one. R may refuse any evaluation with one of `RErrors`,
codes from 0 to 63 or below 0, sent as the byte that holds them. `acknowledged` and `welcome`
remember what the consumer was told since the last exception. A response is its
command and its entries: `isOk` and `getStatus` are computed from its number and the
code in its highest byte, of which `getStatus` looks at seven bits; without a response there is no status (`NoStatus`). An object whose entry cannot be made (`assignThrows`) ends
`assign` before a call. Allocation failures and the destructor are not part of this model.

`Encoded` and `Decoded` are parameters with one assumption, that they are inverse where
an entry can be made; `MCRClient` and `MCDemo` take them from `RPacketEntry`, as tables over
the objects in use, and TLC checks the assumption. `eval` sends the symbol; how
its characters become an entry is in `EntryExchange`.

### Demo

`pc` is the place of `main`, `item` the symbol it is at. `checkFlags` reads one argument at a step, `argp`
is the one it is at; which arguments begin with a dash (`Dashed`) and which number is read from one (`Port`)
are parameters. Each command of `main` is a step that starts it, then `RClient`'s steps run (`ClientStep`),
then a step looks at what came back. The flag `-a` becomes `m_bAnyVersion`: `RClient` is run with
`AnyVersion` TRUE, and `ClientStep` makes `versionMatch`'s test with the flag. Objects have the
shape of the source's, with small numbers for their values; what is printed is the
values, names, missing values and attributes, without layout.

### Codec

An object has the field `bytes`, what `bytelength` returns: nothing changes the data of an object once it is
made. `large` and `hasAttr` are the two flags, computed by the constructors; `Remade` is what a copy constructor
makes of the data.

The operators follow `fillREXP` and `parseREXP` line by line in control: `Put` is a
write into `m_aEntry`, `PutData` the test for room with its unsigned difference,
`ContentAt` the header with attributes, `parseMembers` and `parsePairs` the loops
over members. What C++ leaves undefined ends an algorithm: a write past the end is
the status `overflow`, a read past the end gives `Garbage`. `Wire` is the
layout that `parseREXP` expects, written independently of the lengths the client computes.

A byte has `Base` values. The code has 256; TLC uses 4, and then `0x7fffff`
(half of three digits) is 31, a 24-bit length ends at 63 and a 32-bit one at 255, so
all of the limits are reached by objects of some sixty bytes. `BigEndian` is the
host's order (`BOOST_BIG_ENDIAN`): `serialize` shifts and does not see it; doubles
and the union of RPacket's constructor are memory and do.

`Place[k]` is `Base`^k, what the code writes as a shift. It is a recursive function because the
prover has no facts about `^`, and stops at eight bytes, the widest number the code converts.

R's missing values are the least integer, a NaN with a given payload and the string
of one byte 255. A processor may set the quiet bit of the NaN (`Answer`).

## Runs

| Run | Question | Result |
|---|---|---|
| `network` | do the safety properties hold over three calls, with two requests, three responses (none, small, large entries), three servers and any breaks? | passes |
| `network_faults` | what is left of them when any allocation may fail, what the next `NetworkError` repairs, does no loop go around for nothing, and does every call end? | passes |
| `network_desync` | does a call get its own response when an entry cannot be allocated? | violated, a finding |
| `client` | do logins fit, acknowledgements last and results tell the truth? No bound on the number of commands; deadlock is checked | passes |
| `client_stale` | does `response_isSuccessful` speak of the previous command? | violated, a finding |
| `demo` | does the demo show what it assigned, for every kind of arguments, servers of three kinds, one error of R and any of the network? | passes |
| `entry` | are the bytes those that the server would write, do the lengths lead to the end, and do objects come back, little-endian host? | passes |
| `entry_nested` | and lists with members that have attributes? | violated, a finding |
| `entry_mixed` | and large objects with small attributes? | violated, a finding |
| `entry_logical` | and lists with members of other types? | violated, a finding |
| `entry_string` | does `response_stringAt` return the strings that a response has? | violated, a finding |
| `data` | do missing values and all others survive, big-endian host, with copies? | passes |

*Properties.* `OwnResponse`: a packet returned is, whole, the response to that call.
`AtMostOnce`: no request runs twice. `WholeRequests`: the server never joins bytes of
two calls. `InStep`: between calls both streams are empty. `VersionCurrent`: the
stored identification is that of the present connection and was accepted.
`ErrorEndsSession`: after a `NetworkError` there is no connection. `SyncInv`: the
inductive invariant of the connection without failed allocations, `FaultInv` what is inductive with
them, `CommandInv` that of the commands, `FlagsInv` and `DemoInv` those of the demo, `DataInv` that of a
vector's way to R and back. `ImplementsSession`, `ImplementsCall`: the
refinements, the second along the composed mapping. `OwnResponseOnceRepaired`,
`RepairedInStep`: once a `NetworkError` has followed the last failed allocation, responses are
again those of their calls, and between calls the streams are empty and the version is that of
the connection. `Advances`: every step of a call decreases what it has ahead of it, and nobody else's step adds to it.
`CallReturns`: every call that starts repaired ends. `LoginFitsSession`, `LoginLasts`,
`AssignLasts`, `EvalTellsTruth` for the commands; `WritesAsServer`,
`LengthsLeadToEnd`, `RoundTrip`, `StringReturned` for the codec; `FlagsCombine`, `ShowsItsData`
for the demo; `ServerSeesData`, `DataSurvives` for
missing values.

*What three of them do not say.* `WritesAsServer` compares with `Wire`, the layout that `parseREXP` reads: it shows that the two
directions of the library agree and that the computed lengths are right, not that a real Rserve writes the same (see
"Comments that disagree with the code"). `LengthsLeadToEnd` says that the header of a packet leads to the end of what is sent, whatever
the entries' lengths; of an entry that the 32 bits of `getLength` cannot count only a part is sent, and its own header
announces the whole, so that its end is left out. `EvalTellsTruth` says that a failed evaluation is reported as one, with the code that R refused with
and that it was R: of a code below 0 only seven bits, and not by whom.

*Bounds.* `MaxCalls` is 3: a call that leaves something behind, one that reconnects
and one that meets what is left; `network_faults` and `network_desync` need two.
`HeaderLen` is 2 and `WordLen` 1, so a header can be cut in the middle, and a
large entry's header between its words. `LengthLimit` is 4: one request has
entries that reach it, of which a part or nothing is sent, and one response has an entry as long. Responses have no entry, one, and two of
which the first is large. `MCRClient` has two symbols and values so that an answer can
be the wrong one (one is a matrix, one a list of mixed members with the long header; a third
object, a list of a matrix, has no entry), two passwords, and servers that offer no login, either kind, both
with two keys, and an unknown kind; R refuses with a code of its own or with three below 0, of which one looks like an
unknown one, one like `ERR_auth_failed` and one like a code of R. `MCEntryExchange` takes arrays of every class
empty, just below, at and above the limits (of the three digits, of the word of a packet's length and
of `getLength`: with `Base` 4 a word ends at 255), single values, raw objects, and lists, pairlists
and attributes of them. In `MCDemo` `Base` is 8, so that the demo's objects all have the
short header, as they have in the source; `MCArgvs` are all pairs of arguments, any three flags
with their values, and nine and ten arguments; `MaxRefusals` lets R refuse one command
at any place. In `MCConsumerData` missing values are shorter and longer than R's.

*What the passing codec run leaves out*, because a finding or a hazard says that it
fails: members of lists with attributes, members of unsupported types, large
objects with small attributes, objects whose attributes push the length beyond
three digits, strings with an embedded NUL or a leading `\001`, `LengthsLeadToEnd` on
a big-endian host, copies of objects with attributes (`CopiesAttributed`), tags with the long header,
strings from the single-value constructor as members of a list near the limit, vectors of
floats whose missing value is a double that no float represents.

*Deadlock* is not checked where the modelled process ends: when the bound on calls is
reached or the object is destroyed (`network*`), when an object was read
or could not be encoded (`entry*`, `data`). In `client` and `demo` it is.

*Fairness.* In `network_faults`, `WF(Client)`: the thread runs when it can; a system
call that can deliver or take something does. `BadAlloc` is not part of `Client`: an exception would end a
call that waits, and no run relies on one. `WF(ServerAnswers)`: a server that
holds a complete request answers or the connection breaks. The code sets no timeout
(`network_manager.cpp` 169), so without the second assumption a call may block for
ever: it is an assumption about Rserve, listed as a hazard. After a failed allocation
a call may wait for a server that waits for it, which is why `CallReturns` speaks of calls
that begin repaired. No other run assumes fairness. That the demo ends has no property: `main` is straight-line code, and
only a call that never comes back could stop it, which is the hazard above.

## Findings

1. `network_manager.cpp` 392 and 411: `bad_alloc` for a response's entry leaves `submit`
   without closing the connection; the next call reads the rest of the old response.
2. `rclient.cpp` 171: after a command that threw, `response_isSuccessful` answers for
   an earlier command, where its comment says "the previous server command".
3. `rexp_list.cpp` 33: lengths of lists leave out the attributes of members, which are
   written all the same.
4. `rpacket_entry_0103.cpp` 225: the length of attributes is read with the size of the
   wrong header.
5. `rpacket_entry_0103.cpp` 373: after a member of an unsupported type a list is read
   from the wrong place.
6. `rclient.cpp` 214 and 223: `response_stringAt` compares the type with its flag for large
   data, and looks for the terminator after the end of the entry.

## Comments that disagree with the code

These have no run of their own: each is a comment that the code does not follow, and the models follow the code.

- `rpacket.h` 84 says that codes below 0 denote errors of R. `getStatus` masks the code with 127 (`rpacket.cpp` 77), so that R's -1 to -64
  are reported as "RServe Error", and -63 as a failed authentication; -65 to -128 are reported as other codes of R. `MCRErrors` has such
  codes, and `EvalTellsTruth` says only what remains true of them.
- `rexp.h` 50 says of a pairlist with tags "X tag, X val"; the value is written before its tag (`rpacket_entry_0103.cpp` 146-160)
  and read in this order (line 328). `Wire` has the order of the code. Since both directions agree, no property of this project can tell
  which one a server uses.
- `rexp_string.cpp` 180 says that each string is quad-aligned; the strings follow one another with their terminators and only the
  whole is padded. `Wire` has the padding of the code.
- `rpacket_entry_0103.cpp` 444 says that `getLength` returns the number of bytes of the entry; it returns its low 32 bits. Of an entry of
  4 GB and more only the rest is announced and sent, although the header of the packet has a high word and that of
  the entry announces the whole. The runs `network` and `entry` have entries beyond the limit.

## Proofs

Everything below is proved for all values of the constants that satisfy the assumptions named at the end: any
number of calls, any packets and lengths, any servers, objects and passwords, and bytes of any size, that of
256 values among them.

### The connection (`NetworkManagerProofs`)

Wherever allocations fail (any `AllocFailsAt`):

- `TypeCorrect`; `ExecutedAtMostOnce` (`AtMostOnce`); `ErrorClosesSession` (`ErrorEndsSession`);
- `StaysInStep` (`InStep`), `RepairedStaysInStep` (`RepairedInStep`) and
  `RepairedReturnsOwnResponse` (`OwnResponseOnceRepaired`);
- `FaultsContained` (`FaultInv`), from which these follow;
- `CallsAdvance` (`Advances`).

While no allocation fails (`AllocFailsAt = {}`): `ReturnsOwnResponse`, `RequestsStayWhole`,
`VersionStaysCurrent` and `StaysSynchronized` (`SyncInv`). The hypothesis is necessary: `network_desync`
shows the first to fail without it, and with the places of `network_faults` TLC finds the other three and
`ImplementsSession` violated.

*Argument.* That the answer returned is the right one depends on where every byte of it is, so
none of these is inductive by itself. `SyncInv` says where the bytes are. `SockInv` ties the socket to
`pc`; `OnceInv` says that a request that can still be executed is in one place only
and has not been executed yet; `SendInv` bounds the loops; `StreamInv` says that during a call
either the server holds exactly what was sent and nothing was answered (`Waiting`),
or it has answered and the stream holds exactly the rest of that answer
(`Answered`), and that between calls both streams are empty; `ParseInv` says that
what the loop has taken from the bytes is what they said, with `bytesRead` at an
entry's start. `ReturnInv` adds that the answer to a returned call cannot change.

`FaultInv` is the same with failures. `Intact`, no call on the connection in use ended by `bad_alloc`, stands in front of
`StreamInv`, `ParseInv` and `VersionCurrent`; the other parts hold in any case. A connection is intact when it is
opened, and no step makes it so again (`IntactStep`). The properties speak of what a consumer can know instead:
`RepairedBefore(c)`, every failure before call `c` was followed by a `NetworkError`. `RepairInv`, no call on the connection in use ended by a
`NetworkError`, closes the gap: such an error comes after a failed allocation only on a later connection, so that
what is repaired is intact (`RepairedIsIntact`).

`StreamInv` and `ParseInv` are proved once, one lemma for each part and in it one step for each action, for both
invariants. The lemmas at the top of the module supply that starts of entries grow and end at the announced length, by the
least element of a set instead of induction. TLC checks both invariants, in `network` and
`network_faults`.

`Advances` is the variant of all loops together: what of the call is left (`StagesAhead`), the bytes its
outer loop still expects, the words of an entry's header, the units of the present send or receive,
compared in this order (for a request, the loop is the one over its entries). Its bounds are those of `SendInv`, with one addition: `submit` asks for
another entry's header only while bytes are missing. So a call that does not end waits; that it does not wait for ever
is what fairness adds, in `CallReturns`.

### The abstractions (`RserveSessionProofs`, `NetworkManagerRefinement`)

- `SessionImplementsCall`: `RserveSession` implements `RserveCall`. The invariant `History` says that
  what is executed late belongs to a call that ended, never to the one in progress.
- `ImplementsRserveSession` (`ImplementsSession`): `NetworkManager` implements `RserveSession`, for
  `AllocFailsAt = {}`. Initial states map to initial states, and each action is a step of the session or
  a stutter, by `SyncInv`: the server's answer to a complete request is
  the session's execution, and the packet that is returned at the end is that answer.
- `ImplementsRserveCall` (`ImplementsCall`): both together, along the composed mapping.

A module and its instance name the same things twice, and the prover does not know it: lemmas such as
`SameNames` say it.

### The commands (`RClientProofs`)

For every codec that decodes what it encoded, any servers, symbols and passwords: `TypeCorrect`,
`LoginFits` (`LoginFitsSession`), `LoginsLast` (`LoginLasts`), `AssignmentsLast` (`AssignLasts`),
`EvalsTellTruth` (`EvalTellsTruth`), all from `CommandsStayInSession` (`CommandInv`). `CallsAreRserveCalls` states
that `RClient` uses its NetworkManager only as `RserveCall` allows, which `NetworkManager` implements:
the composition has no gap.

*Argument.* Each question of `login` may find a new server, so nothing that holds when a command starts
has to hold when its request arrives. `CommandInv` follows a request to the server: `RequestInv` says what may be submitted at each place
of a command, and that a response is on its way only while one is submitted and the session is there; `LoginInv` that the
session that answered `login`'s questions is still the present one when the login is submitted,
and that its password was made from this session's key; `AnswerInv` that a response on its way
tells the truth about the workspace and the logins of that session. TLC checks it in `client`.

### The demo (`DemoProofs`)

- `FlagsAreRead` (`FlagsInv`), `FlagsAreCombined` (`FlagsCombine`): for any arguments.
- `DemoKeepsTurn` (`DemoInv`), `DemoShowsItsData` (`ShowsItsData`): for any codec, servers, failures and
  refusals.

*Argument.* `FlagsInv` is the invariant of the scan: the arguments before `argp` are flags with their values, the
flags have what the last of each kind says, and `argp` is nobody's value. One lemma reads one argument, one the
rest. `DemoInv` stands on `CommandInv`, whose proof serves here a second time, and adds what `main` knows:
which command may be in progress at each place (`PlaceInv`), and that before its turn a symbol has no value and
afterwards its own or none, which the demo has been told (`TurnInv`). What is printed then is computed class by
class: the numbers of the script are not R's missing values whatever `Base` is, which is what `MissingDoubles`,
`OrdinaryValues` and `OrdinaryText` are for.

### Missing values (`ConsumerDataProofs`)

`DataKept` (`DataInv`), `ServerSeesConsumersData` (`ServerSeesData`) and `ConsumersDataSurvive` (`DataSurvives`): for any
vectors and missing values, any number of copies on either side, hosts of both orders.

*Argument.* `DataInv` says that what the client sends is the constructed object or its copy, and that from the
answer on the object is `Faithful`. A copy replaces R's value by R's value: it is faithful when the original is, and a
copy of a copy is a copy (`CopyCopied`), which is what lets one step stand for any number. For doubles the
test ignores the quiet bit: `MissingDoubles` of `CodecProofs` shows that exactly two numbers pass it. A float is
widened before it is compared, and two floats widen to the same double only when they are the same
(`WidenedMissing`). The codec is the assumption `CodecAssumption`, which TLC evaluates for `RPacketEntry`.

### The codec (`CodecProofs`, `EntryExchangeProofs`)

- `DigitsKeepNumber`: `deserialize` reads what `serialize` wrote, cut off at the width, for any number, any
  width up to eight bytes and any `Base`. `NumberKeepsDigits` is the other direction, for bytes that the server wrote.
- `DoublesLittleEndian`: on hosts of both orders doubles leave in the protocol's order and come back.
- `HeaderReadBack`: `QAP1Header` is read back from its sixteen bytes as it was.
- `PacketLengthFound`: from the header of a packet of any length that eight bytes hold, its reader
  finds this length, its command and no offset, on a little-endian host. `RPacket`'s constructor takes the two
  halves of the length out of a union, in the host's order; `PacketLengthExchanged` is what the reader
  finds on a big-endian host (a hazard at `rpacket.cpp`).
- `LengthsFound` (`LengthsLeadToEnd`): on a little-endian host, for every object and every string of a command,
  the packet's length leads to the end of what is sent, also where `getLength` cuts an entry short, and the length of each
  entry that it does not cut leads to the entry's end.
- `IntegersReadBack`, `DoublesReadBack`: for arrays of any length, `toNetworkData` writes the bytes
  that were asked for, and behind any header and attributes `parseNumbers` reads the array from them.
- `StringReadBack`: a string without a 0 comes back from the entry that a command makes of it.

*Argument.* The value of digits is a sum. `SumOfDigits` shows that its first k terms are the number modulo `Place[k]`:
the least k where this fails would have one before it where it holds (`SumStep`), and that is a
contradiction. The library's theorem of induction takes an operator and cannot be used here; the least
element of a set of numbers (`LeastElement`, `UpTo`) does the same, here and for the words that `FlattenSeq` joins
(`Joined`). The length of a packet is `low + Place[4] * high`.

For `LengthsFound` the header of an entry is made before anything else is written, and nothing overwrites it
(`FilledAssumption`): its digits are those of the room behind it (`EntryEndFound`), in three digits or seven. A packet has one
entry or two, of each of which as many bytes are sent as `getLength` counts (`SentLength`), so that the sum of the lengths is
that of what is sent, and stays below eight digits (`PacketFits`). Of an entry that the 32 bits of
`getLength` can count all is sent, and only of such an entry `LengthsFound` says that its header leads to its end. That what is written fills
the room exactly is `WritesAsServer`, which TLC checks.

### Assumptions

Those of the constants, each one named where the constants are declared.

- `RPacket`, `NetworkManager`: lengths of headers and of the identification and `LengthLimit` are positive, members of
  `Requests` are packets as the constructor makes them (their `start` is the running total of their entries, each cut off
  at `LengthLimit`), members of `Responses` packets with the whole lengths, `AnyVersion` is Boolean.
- `RClient`: the right password is one of `Passwords`, R's error codes are from -128
  to 63 (one byte, without the codes of Rserve's own), `Decoded` is the inverse of `Encoded` where an entry can be made, and the mark of a symbol without
  value is neither a value nor an entry.
- `Demo`: arguments are strings, the flags begin with a dash, what follows the two places after `-l` is a password or begins
  with one, ports are integers; the objects of the script can be sent; a byte has at least eight values, so that the numbers
  of the script are not R's missing values.
- `EndianConverter`: a byte has an even number of values, and more than one.
- `EntryExchange`: a byte has at least four values, so that commands fit in their word; lengths fit in seven digits; what
  is written for an object stays behind the header and inside the room.
- `ConsumerData`: a byte has at least four values; what is missing among floats is a float
  (`VectorsAssumption`); what may be sent comes back with its data, R's test and the copies
  included (`CodecAssumption`). With `CopiesAttributed` the second is false for `RPacketEntry`: TLC says so.

TLC evaluates all of them in the passing runs, with the codec of `RPacketEntry` for the parameters.

### Only model-checked

- `CallReturns`: liveness under fairness is out of the prover's reach.
- `WritesAsServer` and `RoundTrip`, and with them what the assumptions say of the codec
  (`FilledAssumption`, both `CodecAssumption`s): they compare what recursive operators compute for nested objects, which
  needs an induction over objects. What is not recursive in them is proved: headers, lengths, numbers, strings of commands.
- The properties of the runs that expect a violation: they are false.

## Not modelled

`REXP::getTypeName`, the wording of `getStatus` and the text of `NetworkError` are wording, the inverted
test at `network_manager.cpp` 129 included. `RPacket::isError` has no caller. Two evaluations of the
demo (`rexp_d / 2` and `rexp_i / 2`) ask R to compute. `crypt` returning NULL depends on the C
library. Allocation
failures end a call of `NetworkManager`; what they do to a consumer of `RClient` follows from
`RepairedInStep` and is not modelled again. The server and the network are modelled from how the
client uses them and marked external in the map.

## Plan

Done: the connection first, since everything rests on it, then its abstractions,
the commands, the codec, the missing values, the demo that joins them; then the theorems about each. Every
invariant of the passing runs is proved but `WritesAsServer` and `RoundTrip`.

Left, in this order:

1. Arrays of strings: that `StringAt` finds each of them behind the one before, and the padding behind the last.
   `parseStrings` is recursive; as a recursive function of the position it could be proved about.
2. `fillREXP` for objects without members and attributes: `FilledAssumption` without an assumption for them.
3. Objects with members by their depth: `RoundTrip` for every depth up to a number, each from the one below it.
