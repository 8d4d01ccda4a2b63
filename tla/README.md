# HomeSecurity in TLA+

Specifications of the HomeSecurity servers (`src/Server/src`): the processes
that accept the clients and the devices of a home-security service, route
requests to logic processes, keep track of who is online where, store who owns
which device, and bring alarms and readings to the users. TLC checks every module
on small instances; TLAPS proves the main safety properties for every value of the
constants.

Paths below are relative to `src/Server/src/` unless they start with `src/`.

## 1. The system

    client --short TCP--> logicDispatch --local TCP--> accountLogic, deviceInfo,
                                                       deviceInfo_HomeCloud, alarmLogic
    client --long TCP---> imServer ---+
                                      +--local TCP--> imRelay
    device --long TCP---> imDevServer +
    everyone ------------ redis (sessions, online flags, alarms, device state)
    logic processes ----- MySQL (accounts, devices, sharing, alarm settings)

All processes are event loops (libevent) with worker threads or pools of
consumer threads. Messages are lines of JSON ended by CRLF.

### Components, state, operations, what makes them correct

| component | code | state | operations | what must hold |
|---|---|---|---|---|
| client connections of the dispatcher | `logicDispatch/master_thread.cc`, `worker_threads.cc` | the kernel's descriptors, `map_csfd_id_` (sfd to id), `id_`, a queue and a free list of connections per worker | accept, hand over round robin, check the token, forward a line, time out, close | a descriptor is closed by its owner only; a live connection is in the map under its own id; every accepted connection is closed in the end |
| routing in the dispatcher | `logicDispatch/local_transport.cc`, `json_opt.cc` | `map_logic_sfd_` (module to sfd), receive buffers | accept a logic process, forward a request with (sfd, id), route a reply by (sfd, id) | a reply reaches the client that asked, or nobody |
| consumer queue | `*/consumers.cc` (six copies) | a ring of `queue_num` messages, one mutex, one condition variable | put, get, wait | first in first out, nothing lost or handled twice, nobody sleeps for good |
| links between the processes | `*/local_transport.cc` | `g_clientInfo.sfd`, `local_connect_flag_`, the descriptor of the link | connect every five seconds, split lines, write answers | the link comes back; nobody else's descriptor is closed |
| accounts | `accountLogic/logic_operate.cc`, `sql_opt.cc`, `sqlite_opt.cc` | `tb_user`, redis sessions, `clientLoginInfo` of each user, a sqlite table of changes that did not get through | register, log in and out, change name and password, report the phone, switch alarms on and off | a phone is one user's; the rows of a device follow an account to its new name |
| devices of users | `deviceInfo/*`, `deviceInfo_HomeCloud/*` | tables of devices, owners, shares, channels; a redis list of the users of a device | bind, unbind, share, register, reset, add and delete channels | the list agrees with the tables; channels are of owners only |
| alarms | `imDevServer/message_opt.cc`, `alarmInfo/*`, `alarmLogic/*` | redis lists of alarms per user | push, list, delete | who has alarms on gets them, who was told they are off does not |
| updates | `autoUpdate/*` | tables of versions | query | - |
| users that are online | `imServer/logic_opt.cc` | redis `user:onlineflag`, `user:s_info` | USER_ONLINE, heartbeat, SET_ONLINE_STATUS | what is for a user reaches that user's connection; a dead client does not stay online |
| requests to devices | `imServer/logic_opt.cc`, `relay_message_opt.cc` | `g_map_message` (message id to event and response), a semaphore per call | ask and wait five seconds, store and post | a worker gets its own response; it never waits for good; no entry is left behind |
| temperature and humidity | `imDevServer/message_opt.cc`, `deviceInfo_HomeCloud/ontime_thread.cc` | a redis hash per reading, `tb_device_humiture` | report, mean of the last hour at every full hour | a mean has all the readings of its hour and no others |
| device connections | `imDevServer/*` | `map_csfd_id_`, the redis fields of a device | accept, DEVICE_ONLINE, DEVICE_OFFLINE, heartbeat, message for a device | what is for a device goes to its connection; a device that went away does not stay online; no thread closes another's descriptor |
| relay | `imRelay/*` | `map_no_sfd_` (server number to sfd) | register a server, route to it | a server that is connected is registered |
| connection pools | `*/redis_conn_pool.cc`, `*/sql_conn_pool.cc` | a queue of connections | get, release, terminate | a connection has one user at a time and is alive |
| start of the workers | `*/worker_threads.cc`, `imDevServer/net_core.cc` | `init_count_` and a condition variable | register, wait | `WaitForThreadRegistration` returns once all threads run |
| client SDK | `src/ClientChannelInterface/SdkSrc` | pending requests by message id, sessions | login, request and wait, receive pushes | a request gets its own answer or a timeout |

### What is hard here

- **Threads between two locks.** The maps lock single operations. A look-up and
  the write that follows it, or an erase and an insert, are two steps between
  which a descriptor can be closed and given to another connection.
- **Redis and MySQL without transactions.** A user's place is four keys or
  fields, written and read one by one by several processes, any of which can
  fail or die in between, and which survive the processes.
- **Late and lost answers.** Requests cross four processes; the answer can come
  after its caller has given up, and find the caller's successor in its place.
- **Bounded queues and blocking.** A full ring blocks the thread of the link; a
  worker that waits for a device blocks all of its connections.
- **Copies of what another process decides.** The list of a device's users, the
  name in a session, the phone an alarm goes to: each is a copy in redis of what
  MySQL, or another user's request, has changed meanwhile.
- **Half a piece of work.** Most handlers write several rows or fields without a
  transaction; an error path returns, commits or leaves a mutex locked.
- **Numbers that start over.** Connection ids wrap at 65536 and start again with
  the process; message ids are chosen by clients, each from 1.

`PROJECT.json` lists each such place ("hazards") with the properties that watch
it.

## 2. The modules

| module | models | composes |
|---|---|---|
| `Dispatch` | logicDispatch: master, workers, routing of replies | |
| `WorkQueue` | what a consumer queue promises: an abstract bounded FIFO queue | |
| `ConsumerQueue` | `consumers.cc`: the ring buffer | implements `WorkQueue` |
| `RelayRequest` | imServer: `GetResponseFromRelay` and the thread that reads the relay's answers | |
| `OnlineStatus` | imServer processes, imRelay and redis: on which connection a user is online | |
| `RelayLink` | the thread that keeps the link to imRelay, and its descriptor | |
| `DeviceServer` | imDevServer: its start, connections of devices, their place in redis, messages for them | `RelayLink` |
| `ClientInfo` | accountLogic: sessions, phones and alarm flags in redis | |
| `Alarms` | imDevServer and alarmInfo: an alarm on its way to the lists of the users | `ClientInfo` |
| `DeviceUsers` | deviceInfo_HomeCloud: the owners of a device in MySQL and the list of them in redis | |
| `DeviceStore` | deviceInfo: who has a device, and its channels | |
| `Accounts` | accountLogic: registration and the change of an account's name | `DeviceStore` |
| `Humiture` | imDevServer's readings and deviceInfo_HomeCloud's hourly statistics | |
| `MC...` | the constants TLC uses for the module of that name | |
| `...Proofs` | the theorems about the module of that name; `AccountsProofs` those about `DeviceStore` too, and `HomeCloudProofs` those about `DeviceUsers` and `Humiture`, the two parts of deviceInfo_HomeCloud | |

A definition whose name ends in `_Something` after the name of an action is a
mutant of that action, a plausible bug; it is used nowhere but to see that the
properties would notice it.

### Dispatch

One action per piece of code between two points where another thread can see a
difference: each locked operation of `map_csfd_id_`, each system call that opens
or closes a descriptor, each push to and pop from a queue. `AcceptCb` is
therefore four actions (`MasterAccept`, `MasterErase`, `MasterInsert`,
`MasterDispatch`) and `ClientTcpErrorCb` two (`ErrorErase`, `ErrorClose`);
`Free(w)` says that a worker runs one callback at a time. `SendToClient` is
`SendToClientCheck` and `SendToClientWrite`. `fdOwner` is the kernel's table. The
logic processes are a set of requests they hold and may answer in any order,
repeatedly; the link to them may break and lose what it carries. What a request
says, and which of the four logic processes it goes to, is abstracted.
`OnlyToSuccessor` says how far a stray reply can get, `Held` who still has to close
a descriptor.

### ConsumerQueue and WorkQueue

An action of `ConsumerQueue` is what a thread does while it holds the mutex:
`PutData`, `GetData(c)`, or the start of a wait (`PutWait`, `GetWait(c)`).
`Wakes` is `pthread_cond_broadcast`; `Spurious` is the wake-up without a cause
that POSIX allows. Messages are numbered by arrival. `Implements` states that
the ring, read off as a sequence (`Items`), is the queue of `WorkQueue`.

### RelayRequest

A worker's call is `Start`, `Send`, `WaitPosted` or `WaitFailed`,
`ReadResponse`, `Finish`; the link's thread does `ReplyFound` (under the map's
lock) and then `Post` (without it). `sem` is the semaphore at its place on the
worker's stack: a later call has its semaphore in the same place, so a post that
comes late may raise that one, or do nothing. Clients number their messages from 1
each, so any request may take any id. `mixed` is history: the requests that have run
beside another one of the same id, or before the reply to one had come; `lateWake`: those
whose semaphore a post for an earlier request has raised.

### OnlineStatus

Each redis command of `UserOnline`, `GetLiveStatus` and `SetOnlineStatus` is a
step, as are imRelay's two reads, the two of `VerifyUserSfd`, the check of the pair in
`map_csfd_id_` and the write after it (`KickChecks`, `VerifyFd`, `VerifyId`, `PostWrites`).
A request names its user itself, so a connection may log in several users. Ids start
over at `IdLimit` and with every `Restart` of a server, which leaves redis as it is. A
failing command is a step of its own, `MaxFails` of them at most. History: `again`, the
servers that have given an id twice; `by` in redis's record of a user, the server whose
id it is (nobody's once that server has ended); `met`, the logins that overlapped another
of the same user; `told`, where the last login that did not, and was told SUCCESS, was.

### RelayLink and DeviceServer

`RelayLink` is `SetupThread`: `LinkOpen` (`InitSocketFd`), the two ways in which
`connect_nonb` fails (`LinkRefused`, closed once; `LinkFailsLate` and
`LinkClosesAgain`, closed twice), `LinkUp`, `LinkUpFails` and `LinkBreaks`. It
shares `owner`, the kernel's table of descriptors, with `DeviceServer`, whose
connections are accepted, refused by `conn_new`, served and closed on the same
numbers. `LinkUpFails` leaves a descriptor open that keeps the port of the link
(`Leaked`); a second close that hits another owner's descriptor sets `spoiled`, and
the model stops there.

A connection runs one handler at a time. `DEVICE_ONLINE` is `OnlineSet`, three
`OnlineHset` steps for the fields `no`, `sfd` and `id`, and `OnlineExpire`; a heartbeat is
`BeatSet` and `BeatExpire`; a command that fails ends them at any place. A
message for a device is `PushRoutes` (imRelay's reads of the fields), `PushReadsFd`,
`PushReadsId` and `PushVerify` (`VerifyDeviceSfd`, up to the test of the pair in
`map_csfd_id_`), and `PushWrites`, which comes later: between the two the descriptor may
be closed (`PushCloses`) and be somebody else's. Ids start over at `IdLimit`; `again` says
that one was given twice.
`Register` and `MasterWaits` are the start of the workers, with the
signal that is lost when the last worker is faster than the master.

### ClientInfo and Alarms

A thread of accountLogic takes a request of a phone and goes through its redis
commands: REPORT_CLIENT_INFO is `GetsHolder`, `HdelsOld`, `Hsets`, `Expires`, `SetsHolder`;
SET_CURRENT_ALARM_FLAG writes phone then flag when it switches on, flag then phone
when it switches off. `username_` of the thread's `CLogicOperate` outlives a request:
`job[c].user` does too, and a request without a session goes on for it. In `Alarms`
each user of the list is `ReadsFlag` and `Push` of `PushAlarmMessage`; the answer
decides whether the device sends again. `KeepInfo` is the frame of everything that
is accountLogic's. `LLen` returns 3, the type of redis's answer, as the code does: the
lists are never cut to `ALARM_MSG_LIST_LEN`. `Without` is what `LRem` leaves of a
list; `MCAlarms` compares it with the library's `SelectSeq`. `quiet` and `due` are history, as the
comments in the module say.

### DeviceUsers

One transaction, or one redis command, is a step of the consumer that handles the
request, so `UserBindDevice` is `Bind`, `BoundExists`, `BoundAdd`, and
`GetDeviceUsers` is `ListMissing`, `ReadFlag`, `ReadBound`, `ReadLinked`,
`HoldKey`, `Fill`. `DeviceRegister` and `ReportDeviceReset` differ in `LookUp`: only
the first selects the redis database that holds the name of the user who is
configuring the device by AP. `kind` is the device's row (none, one without a type that
deviceInfo has made, a camera), `bound` and `linked` are the two tables of owners,
`cache` is the redis set with the empty string that keeps its key. Any transaction may
fail, and `MaxFailures` redis commands (`RedisFails`, `ListMissing`), after which every
handler goes on. `CloudSee` is what users do to the device through deviceInfo, which does
not know of the list. `Next` is `Step`, what the code does, with `History`, three variables
that no action reads: `astray` (`NowAstray`), users something has kept on the list or on
the way to it, `missed` (`NowMissed`), owners something has kept off it, and `unread`, for
each list that is being made, the users who may not be on it.

### DeviceStore and Accounts

Binding and giving up are a transaction each, and so a step each; `RemoveBind`'s
second outcome is the exception handler that turns autocommit on and so commits the
first of two deletes. `AddDeviceChannelToDB` has no transaction: `AddTake`, `AddRead`
and one `AddInsert` per channel. Its two loops are `NewNumbers` and, for the first,
the recursive function `Scan`; `NewNumbersRight` proves what they give. In `Accounts`, `ModifyUserNameToDB` is `RenameTake`, `RenameUsers`,
`RenameDevices` (two databases, two transactions) and `RenameNotes`, the note in
sqlite, whose error path keeps the mutex (`locked`). `ResetUserPasswordByMobile` calls the
same function with the session's name as the account and the name in the request as
the old one (`logic_operate.cc:491`): `ResetPassword` moves the rows of any name to the
session's. A session holds a name; every
request of deviceInfo is made for the name in a person's session, whether or not the
account still has it. A session's end (`UserLogout`, expiry) is not an action here: it
only takes requests away (`ClientInfo` has it, where something depends on it).

### Humiture

`ReportTemperature`, `ReportHumidity`, `ReportExpire` are the three redis commands of
`DeviceReportHumiture`; the stamp is the device's and may be an hour old. The hourly
thread is `RunStarts` (or `RunSleepsOver`, the full second missed between two looks at
the clock), `GetOnline`, and for each device `GetKeys`, an `HgetTem` and `HgetHum` for
each key, and `GetAvg`; then `StatToDB`, and an `Insert` for each row. A mean is the set
of readings it is made of. `date` is always that of the moment, `hour` the one before:
what the code does at midnight.

## 3. What TLC checks

Bounds are the constants named "bound" in the modules. Symmetry is used for
safety only. `CHECK_DEADLOCK FALSE` is set where the bounds stop the model, or where
the system may rest.

| run | instance | shows |
|---|---|---|
| `dispatch` | two connections, two descriptors, two workers, an id that starts over at 0 | `CheckSound`, `Reachable`, `FdExclusive`, and `Released` under fairness. Two connections suffice: every hazard of the map is between one connection and the next on its descriptor |
| `dispatch_crosstalk` | one descriptor, two connections | `NoCrosstalk`, what the comments at `master_thread.cc:124` and `master_thread.h:28` promise, is violated between the check and the write |
| `queue` | three consumers on a ring of two slots that goes around twice | `NoLostWakeup`, `Implements`, and `Delivered` and `Unblocked` under fairness |
| `request` | two workers, two requests each, two ids that any of them may take | `TableOwned`, `OwnResponse`, and `Answered` under fairness |
| `online` | two servers with a descriptor each, two users, an id that starts over at once, two logins anywhere, a restart, a failing command | `RightUser`, `OnlineReachable`. The connections of one login and of the next, on one server or two, before and after a restart |
| `device_users` | two consumers, two users, any transaction and one command that fail | `CachedAreBound` (who is on the list owns the device), `CacheComplete` (every owner is on it), but for what `NowAstray` and `NowMissed` name |
| `ap_register` | one consumer, one user | `RegisterKeepsApUser`, what the comment at `deviceInfo_HomeCloud/logic_operate.cc:237` says, is violated by a registration whose statement fails |
| `device_server` | three descriptors for the link and two devices, two workers, ids that start over, a failing command | `FdOwned`, `RightDevice`, `DeviceFound`, `OnlineExpires`. Three descriptors: the link, the connection a device has left, and its new one or the other device's. Of three connections the last has the first one's id and is explored only without failures and beside at most one other client's descriptor (`MCFew`) |
| `device_live` | two descriptors, one device | `OfflineInTheEnd` and `LinkComesBack` under fairness |
| `alarms` | two users and two phones, two threads of accountLogic, an alarm sent twice at most, a deletion, a failing command | `OneHolder`, `FlagHasPhone`, `OffMeansOff`, `Recorded` |
| `humiture` | two devices, days of two hours, three readings, a clock that passes one midnight, a failure | `StatisticsRight`, which is `RowsExact` and `HoursCounted` |
| `device_store` | two people, two names, two changes of a name at once, two adds, three of these together (`MCFew`), a failing statement or connection | `ChannelsOwned`, `AddedAsAsked`, `RowsFollow` |

One failure suffices in each run: the properties are about the state a failed
command leaves behind, and the failures the code handles do not depend on each
other.

Fairness. `Dispatch` assumes that the event loops go on and that
`client_timeout_` ends a silent connection (`bufferevent_set_timeouts`).
`ConsumerQueue` assumes that a thread that wants the mutex gets it and that
`StartLogicOpt` returns, and no spurious wake-up. `RelayRequest` assumes that a
worker goes on with its own call, whose wait has a limit; nothing is assumed of
replies. `DeviceServer` assumes that a thread in the middle of a handler goes on, that
redis lets a key with a time to live expire, and (strong fairness) that of infinitely
many attempts to connect to imRelay one succeeds, which the network owes and not
the code. Devices need not do anything.

### What the properties exclude, and why

Each property that is not unconditional says so in its comment. What it excludes is
named by a history variable (one, `spoiled`, also ends the behaviour): such a property says that these ways,
which the code does leave open, are the only ones. Taking one of them out of its property
gives a counterexample.

- `RelayRequest`: requests that share an id (`mixed`) may take each other's responses (the
  second insert under an id is ignored), and a post that comes after its request has timed
  out may wake the worker's next request, which then reports SUCCESS without a response
  (`lateWake`).
- `OnlineStatus`, `RightUser`: redis has one record of a user, and its id is compared with
  the ids of whichever server reads it. If another server has written it, or this one
  before a restart (`by`), or an id was given twice (`again`), the message may go to another
  user's client. So it may if the connection is closed between the check of the map and the
  write (`post` is "closed" then): no lock keeps the two together.
  `OnlineReachable`: logins of a user that overlap (`met`) may leave fields of both; and one
  whose `Hget` fails is told SUCCESS and has written nothing, so `told` does not count it.
- `SetOnlineStatus` writes the online flag without a time to live (`imServer/logic_opt.cc:233`),
  although the comment at `:176` wants one: the time to live is not kept in the model, the
  flag may run out or stay, and nothing is claimed of it.
- `DeviceUsers`: `NowAstray` and `NowMissed` list how list and tables come apart: a list
  that was read before a user gave the device up, or bound it, and is written after; a bind
  or a removal whose transaction failed and which changes the list all the same; a
  list made in the factory state; a user whom deviceInfo unbinds; a key that is deleted
  between `Exists` and `SAdd`; a command that fails. `ReportDeviceReset` looks in the wrong
  redis database and unbinds the user who configures the device too (`Report`).
- `DeviceServer`: a message goes to another device if its connection is closed between the
  test of the pair and the write, or after an id was given twice (`again`); `RightDevice` is
  about the rest. The second close by `LinkClosesAgain` may hit a client's descriptor
  (`spoiled`). After `conn_new` has refused a connection its map entry stays, the next
  insert on the descriptor does not replace it, and the device is not found (`lost`).
  `master = "running"` is not inevitable, because of the lost signal. A link whose
  `AddNewConnToEvent` failed does not come back while the socket it left has the port.
- `ClientInfo`: users two requests of which overlap (`mixed`), and phones of which a report
  failed half way or that were given by a user who had not reported them (`odd`).
- `DeviceStore`: names whose removal failed half way, or to which channels were added
  after it (`torn`): binding the device again brings old channels back.
- `Accounts`: names for which something was done in a session that had outlived the
  account, or that rows were moved to when the account had gone on (`outlived`), and names
  whose rows met no connection or a failing sqlite (`lost`).
- `Humiture`: `HoursCounted` fails at midnight: the thread looks for hour 23 of the
  day that has just begun, so the last hour of a day never gets a row.

## 4. What is proved

The proofs hold for any number of connections, descriptors, threads, users and so on,
any bounds, and wherever the listed failures happen. `TypeCorrect` is
`Spec => []TypeOK` in each of the eight `...Proofs`; `HumitureTypeCorrect` in
`HomeCloudProofs` is the same for `Humiture`.

| theorem | statement | argument |
|---|---|---|
| `DispatchProofs!FdExclusiveHolds`, `ReachableHolds` | `Spec => []FdExclusive`, `[]Reachable` | `FdInv` is inductive: the kernel's table and the connections agree (`OwnerInv`), the master holds one connection at most (`MasterInv`), a queued connection is in one place of one queue (`QueueInv`), and the map holds the connection's id from insert to erase (`MapInv`). `Reachable` alone is not inductive: it needs that no other connection has the descriptor |
| `DispatchProofs!CheckSoundHolds` | `NoWrap => (Spec => []CheckSound)` | `IdentityInv`: `FdInv`, plus that ids equal the count of accepts and are distinct (`IdInv`), that a connection which could send a request leaves no entry behind (`VerifiedInv`), and that requests carry their connection's pair (`RequestInv`) |
| `DispatchProofs!OnlyToSuccessorHolds` | `Spec => []OnlyToSuccessor`, whether or not ids start over: whoever receives a reply is its requester, or has the descriptor of a requester that is gone | `StrayInv`: a request on its way carries the descriptor its requester has or had (`Carried`), and of two connections with one descriptor at most one is live, so the requester is gone; what is gone stays so |
| `DispatchProofs!HeldHolds` | `Spec => []Held`: a connection that is open is in the master's hands, in its own worker's queue, or served by a worker that has one last callback for it | inductive with `FdInv`: a queue that is popped or pushed keeps the others in it, and a connection is taken by the master or by its own worker only |
| `ConsumerQueueProofs!RingHolds`, `NoLostWakeupHolds`, `HandledOnceHolds` | the ring holds what it should, nobody sleeps through what it waits for, no message is handled twice | `QueueInv` is inductive; the arithmetic of `(pos + k) % Capacity` is in lemmas of its own |
| `ConsumerQueueProofs!QueueImplements` | `Spec => Abstract!Spec` | every step of the ring maps to `Put`, `Take`, `Finish` or a stutter of `WorkQueue` |
| `RelayRequestProofs!TableOwnedHolds` | for all workers and ids, repeated or not | inductive with the type invariant |
| `RelayRequestProofs!OwnResponseHolds` | `Spec => []OwnResponse`, whatever ids the clients choose | `ResponseInv`: an event in the table is the semaphore of a request that is going on (`EventInv`); a request that is not mixed is alone with its id, among the workers and the replies on their way (`AloneInv`), so that whoever raises its semaphore in time has stored its reply (`WakeInv`) |
| `OnlineStatusProofs!RightUserHolds` | `Spec => []RightUser`, for any servers and restarts, whatever fails and however logins overlap | until a server gives an id twice, an id says which connection it is, dead or alive; the id that redis has of a user, if it is by this server in this run, is one of a connection that user has logged in on. That the three fields do not fit together does not matter then |
| `OnlineStatusProofs!OnlineReachableHolds` | `Spec => []OnlineReachable` | a login that has met no other is the only one at work on its user's keys; `WroteInv` says which fields it has written at each stage |
| `HomeCloudProofs!CachedAreBoundHolds` | `Spec => []CachedAreBound`, for any consumers and failures | `AstrayInv`: whoever is on the way to the list owns the device or is `astray`; what a step puts on the list was on its way before (`StepCached`) |
| `HomeCloudProofs!CacheCompleteHolds` | `Spec => []CacheComplete`, likewise | `UnreadInv`: an owner a list is made without is `unread`; `MissedInv`: and `missed`, while he is not on a list (`StepMissed`) |
| `DeviceServerProofs!FdOwnedHolds`, `EntryOwnHolds` | no thread closes another's descriptor; a served connection is in the map under its own id | the kernel's table agrees with the connections and the link; a connection's entry is erased by its own worker only |
| `DeviceServerProofs!RightDeviceHolds` | `Spec => []RightDevice`: until an id is given twice, a verified connection is the device's as long as it is open | as `RightUserHolds`: an id says which connection it is (`IdInv`), and redis has of a device only ids of that device's connections |
| `DeviceServerProofs!DeviceFoundHolds` | `Spec => []DeviceFound` | `AloneInv`: while nobody else announces the device, the fields are those of the connection that announced it last, as far as it has written them |
| `DeviceServerProofs!OnlineExpiresHolds` | `Spec => []OnlineExpires` | part of the same invariant: a flag without a time to live belongs to a handler that is about to give it one, unless a command has failed |
| `AlarmsProofs!OneHolderHolds`, `FlagHasPhoneHolds` | whatever requests of several users on one phone do to each other | `PhoneInv`: between a report's Hset and its SetHolder the phone is the reporting user's, else the holder's; `FlagInv`: the phone is stored before the flag and taken after it |
| `AlarmsProofs!OffMeansOffHolds`, `RecordedHolds` | for every list of owners | `QuietInv`: nobody is switching alarms on for a user who was told they are off; `HandOK`: every owner that is due is still ahead in the loop |
| `HomeCloudProofs!StatisticsRightHolds` | `HumitureSpec => []StatisticsRight`, for any length of a day | `ReadInv`: what has a time to live has been stored whole and keeps for a day from its hour on (so a half reading of an old stamp cannot be completed unseen); `WorkInv`, `MadeInv`, `RowsInv`: the full hour a row is made of (`Begun`) is earlier than the one the thread works on, so no row is made twice; `DueInv`: a device that was online is still to come, is being read with every reading that is due yet to be read or read, or has its row |
| `AlarmsProofs!WithoutRight` | what `LRem` leaves is the list without that alarm, in its order | the rank of a kept entry is an injection of the kept ones into 1..n, hence onto |
| `AccountsProofs!ChannelsOwnedHolds`, `RowsFollowHolds` | `Spec => []ChannelsOwned`, `[]RowsFollow`: for any number of people, names, adds and changes of names at once; what `torn`, `outlived` and `lost` name is all that can go wrong | inductive with the types and `RenRight`: a change that is about to move rows moves them to a name that an account has, or that is `outlived` |
| `AccountsProofs!AddedAsAskedHolds` | `Spec => []AddedAsAsked`, for any limit | `AddRight`: an add that nobody has disturbed has inserted the numbers it computed but for those that are left (`Undisturbed`); that those are the right ones is `NewNumbersRight` |
| `AccountsProofs!NewNumbersRight` | for every set of channels within the limit, `NewNumbers` gives numbers that are free, at least as many as asked for, and leaves none free below them; it gives more only when it fills gaps | the least-number principle, from the well-foundedness of strict inclusion on finite sets; from it that the recursive function `Scan` exists, and the invariant of the loop |

`RingInv`, `HandledOnce`, `EntryOwn`, `Held`, `OnlyToSuccessor`, `WithoutRight` and
`NewNumbersRight` are proved and not checked by a run of their own (for
`Without`, TLC evaluates an assumption of `MCAlarms`).
`OnlyToSuccessor` is what is left of the promise that `dispatch_crosstalk` refutes.

Only model-checked: liveness under fairness (`Released`, `Delivered`, `Unblocked`,
`Answered`, `OfflineInTheEnd`, `LinkComesBack`), because ENABLED and fairness are beyond
the provers. The safety half of four of them is proved: `Held` (somebody still has the
connection that has to be released), `NoLostWakeup` (for `Delivered` and `Unblocked`) and
`OnlineExpires` (for `OfflineInTheEnd`).

## 5. How the project is laid out, and what could come next

The order was that of how much of the service depends on a part: the dispatcher and the
queue first, then what finds users and devices, then what is stored about them. Left:

1. imRelay's table of connected servers: an entry is made before its socket is set up
   and `insert` does not replace (`imRelay/local_transport.cc:69`), and `ErrorCb` goes on
   with an iterator it has erased. `OnlineStatus` and `DeviceServer` assume that the
   server they route to is in the table;
2. the pools of redis and MySQL connections, with the terminated connection that is handed
   out (`accountLogic/sql_conn_pool.cc:138`). The other modules see a pool as commands
   that may fail;
3. the SDK's wait for an answer, which has the shape of `RelayRequest`;
4. restarts: `OnlineStatus` restarts its servers; restarts of the other processes are not
   modelled, apart from links that break.

## 6. What is not modelled

- The text of messages, the parsing of JSON, logging, configuration files, the
  Makefiles, the Windows parts of the SDK, and the libraries (libevent, hiredis, MySQL
  Connector, libcurl), which appear only as what the code uses of them.
- autoUpdate, alarmLogic and the requests that only read: no state that two steps could
  disagree about. Settings and names of devices and channels are columns of one row that one
  statement writes.
- Activation by mail, feedback and the change of a password alone: one row, one statement.
- CloudSee, the service that deviceInfo tells of bindings: outside the repository.
- How a reading's score is computed (`GetAvgHumiture` after the mean).

Assumed where the source leaves it open: the repository has no schema, and the name
in `tb_user`, the pair of name and device in the owners' table, and name, device and
number in the channels' table are taken to be keys (the code's error paths expect it); a phone waits for an answer before it asks again; what the hourly thread does
takes less than an hour. `PROJECT.json` lists each part with what is missing of it.
