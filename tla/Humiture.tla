------------------------------ MODULE Humiture ------------------------------
(***************************************************************************)
(* Temperature and humidity.  A device reports readings with a time stamp  *)
(* of its own; imDevServer stores each as a hash in redis, under the       *)
(* device's guid and the stamp, with a day to live.  Every full hour a     *)
(* thread of deviceInfo_HomeCloud goes through the devices that are online *)
(* and writes the mean of each one's last hour to tb_device_humiture.      *)
(*                                                                         *)
(* A mean is modelled by the readings it is made of.  HoursPerDay is 24 in *)
(* the code.                                                               *)
(***************************************************************************)
EXTENDS Integers, FiniteSets, Sequences

CONSTANTS
    Devices,      \* the guids of devices
    Nil,          \* no device, no stamp
    HoursPerDay,
    PerHour,      \* how many different stamps an hour has
    LastHour,     \* bound: the hour at which the clock stops
    MaxReports,   \* bound: readings that are reported
    MaxFails      \* bound: commands and statements that fail

ASSUME HumitureAssumption ==
    /\ Nil \notin Devices
    /\ HoursPerDay \in Nat \ {0, 1}
    /\ PerHour \in Nat \ {0}
    /\ {LastHour, MaxReports, MaxFails} \subseteq Nat

Hours == 0 .. LastHour
Stamps == [hour : Hours, n : 1 .. PerHour]
Day(t) == t \div HoursPerDay
HourOfDay(t) == t % HoursPerDay
Forever == -1          \* a key without a time to live

VARIABLES
    now,        \* hours since the beginning
    full,       \* it is the first second of the hour, which Run waits for
    readings,   \* redis: the fields that the hash of each guid and stamp has
    dies,       \* redis: the hour from which a hash may be gone
    report,     \* imDevServer: the DEVICE_REPORT_HUMITURE it works on for a device
    reports,    \* how many there have been (bounded)
    stat,       \* the thread's HumitureStatisticsPHour
    rows,       \* tb_device_humiture
    fails,      \* how many commands and statements have failed (bounded)
    stored,     \* history: the readings that have been stored with both fields
    known       \* history: the readings of the last hour stored when the thread began

reportVars == <<readings, dies, report, reports, stored>>
humitureVars == <<now, full, readings, dies, report, reports, stat, rows, fails,
                 stored, known>>

NoReport == [at |-> "idle", stamp |-> Nil]
Row == [guid : Devices, date : 0 .. Day(LastHour), hour : 0 .. HoursPerDay - 1,
        of : SUBSET Stamps]
\* began, online and missed are history: the hour in which the thread began, the
\* devices it found online, and those of which it could not get every reading.
Stat == [at : {"idle", "keys", "device", "tem", "hum", "insert"},
         date : 0 .. Day(LastHour), hour : 0 .. HoursPerDay - 1,
         todo : SUBSET Devices, guid : Devices \cup {Nil}, keys : SUBSET Stamps,
         stamp : Stamps \cup {Nil}, vec : SUBSET (Devices \X Stamps), made : Seq(Row),
         began : Hours, online : SUBSET Devices, missed : SUBSET Devices,
         result : {"none", "success"}]
NoStat == [at |-> "idle", date |-> 0, hour |-> 0, todo |-> {}, guid |-> Nil,
           keys |-> {}, stamp |-> Nil, vec |-> {}, made |-> <<>>, began |-> 0,
           online |-> {}, missed |-> {}, result |-> "none"]

HumitureTypeOK ==
    /\ now \in Hours
    /\ full \in BOOLEAN
    /\ readings \in [Devices -> [Stamps -> SUBSET {"temperature", "humidity"}]]
    /\ dies \in [Devices -> [Stamps -> (0 .. LastHour + HoursPerDay) \cup {Forever}]]
    /\ report \in [Devices -> [at : {"idle", "temperature", "humidity"},
                               stamp : Stamps \cup {Nil}]]
    /\ reports \in 0 .. MaxReports
    /\ stat \in Stat
    /\ rows \in Seq(Row)
    /\ fails \in 0 .. MaxFails
    /\ stored \subseteq Devices \X Stamps
    /\ known \subseteq stored

HumitureInit ==
    /\ now = 0
    /\ full = FALSE
    /\ readings = [d \in Devices |-> [s \in Stamps |-> {}]]
    /\ dies = [d \in Devices |-> [s \in Stamps |-> Forever]]
    /\ report = [d \in Devices |-> NoReport]
    /\ reports = 0
    /\ stat = NoStat
    /\ rows = <<>>
    /\ fails = 0
    /\ stored = {}
    /\ known = {}

-----------------------------------------------------------------------------
(* imDevServer: DeviceReportHumiture.                                      *)

\* The stamp is of this hour, or the reading comes an hour late.
ReportTemperature(d, s) ==
    /\ report[d].at = "idle"
    /\ reports < MaxReports
    /\ s.hour \in {now, now - 1}
    /\ reports' = reports + 1
    /\ readings' = [readings EXCEPT ![d][s] = @ \cup {"temperature"}]
    /\ report' = [report EXCEPT ![d] = [at |-> "temperature", stamp |-> s]]
    /\ UNCHANGED <<now, full, dies, stat, rows, fails, stored, known>>

ReportHumidity(d) ==
    LET s == report[d].stamp
    IN /\ report[d].at = "temperature"
       /\ readings' = [readings EXCEPT ![d][s] = @ \cup {"humidity"}]
       /\ stored' = IF "temperature" \in readings[d][s] THEN stored \cup {<<d, s>>}
                    ELSE stored
       /\ report' = [report EXCEPT ![d].at = "humidity"]
       /\ UNCHANGED <<now, full, dies, reports, stat, rows, fails, known>>

\* Expire(hkey, 86400); it says no when the key is gone already.  The key that names
\* the device's latest reading, set before, is left out: its readers look for it in
\* another database.
ReportExpire(d) ==
    LET s == report[d].stamp
    IN /\ report[d].at = "humidity"
       /\ dies' = [dies EXCEPT ![d][s] = IF readings[d][s] = {} THEN Forever
                                         ELSE now + HoursPerDay]
       /\ report' = [report EXCEPT ![d] = NoReport]
       /\ UNCHANGED <<now, full, readings, reports, stat, rows, fails, stored, known>>

\* The next command fails: the rest is not done, a key may live for good.
ReportFails(d) ==
    /\ report[d].at # "idle"
    /\ fails < MaxFails
    /\ fails' = fails + 1
    /\ report' = [report EXCEPT ![d] = NoReport]
    /\ UNCHANGED <<now, full, readings, dies, reports, stat, rows, stored, known>>

\* redis: a reading's time is over.
Expires(d, s) ==
    /\ dies[d][s] # Forever
    /\ now >= dies[d][s]
    /\ readings' = [readings EXCEPT ![d][s] = {}]
    /\ dies' = [dies EXCEPT ![d][s] = Forever]
    /\ UNCHANGED <<now, full, report, reports, stat, rows, fails, stored, known>>

-----------------------------------------------------------------------------
(* deviceInfo_HomeCloud: COntimeThread.                                    *)

\* A full hour.  What the thread does then takes less than an hour.
Tick ==
    /\ now < LastHour
    /\ ~full
    /\ stat.at = "idle"
    /\ now' = now + 1
    /\ full' = TRUE
    /\ UNCHANGED <<reportVars, stat, rows, fails, known>>

\* Run sleeps a second and then some: it looks at the clock before and after the
\* second it waits for.
RunSleepsOver ==
    /\ full
    /\ full' = FALSE
    /\ UNCHANGED <<now, reportVars, stat, rows, fails, known>>

\* Mutant: an hour before the first of the day.
RunStarts_NoMidnight ==
    /\ full
    /\ full' = FALSE
    /\ stat' = [NoStat EXCEPT !.at = "keys", !.began = now, !.date = Day(now),
                              !.hour = HourOfDay(now) - 1]
    /\ known' = {r \in stored : r[2].hour = now - 1}
    /\ UNCHANGED <<now, reportVars, rows, fails>>

\* Run: the hour before this one, but always of the day that it is now.
RunStarts ==
    /\ full
    /\ full' = FALSE
    /\ stat' = [NoStat EXCEPT
          !.at = "keys", !.began = now, !.date = Day(now),
          !.hour = (IF HourOfDay(now) = 0 THEN HoursPerDay ELSE HourOfDay(now)) - 1]
    /\ known' = {r \in stored : r[2].hour = now - 1}
    /\ UNCHANGED <<now, reportVars, rows, fails>>

\* The thread's step leaves everything else alone.
OnlyStat == UNCHANGED <<now, full, reportVars, rows, known>>

\* GetOnlineDevicesGuid: any device may be online; DeviceServer says which are.
GetOnline(online) ==
    /\ stat.at = "keys"
    /\ stat' = [stat EXCEPT !.at = "device", !.online = online, !.todo = online]
    /\ OnlyStat /\ UNCHANGED fails

GetOnlineFails ==
    /\ stat.at = "keys"
    /\ fails < MaxFails
    /\ fails' = fails + 1
    /\ stat' = NoStat
    /\ OnlyStat

\* GetDeviceEnvByGuid: the keys of the device's readings.
GetKeys(d) ==
    /\ stat.at = "device"
    /\ d \in stat.todo
    /\ stat' = [stat EXCEPT !.at = "tem", !.guid = d, !.todo = @ \ {d},
                            !.keys = {s \in Stamps : readings[d][s] # {}}]
    /\ OnlyStat /\ UNCHANGED fails

\* Its result is not looked at: the device has no readings then.
GetKeysFails(d) ==
    /\ stat.at = "device"
    /\ d \in stat.todo
    /\ fails < MaxFails
    /\ fails' = fails + 1
    /\ stat' = [stat EXCEPT !.at = "tem", !.guid = d, !.todo = @ \ {d}, !.keys = {},
                            !.missed = @ \cup {d}]
    /\ OnlyStat

\* Hget is false for a field, or a key, that is not there.
HgetTem(s) ==
    /\ stat.at = "tem"
    /\ s \in stat.keys
    /\ stat' = IF "temperature" \in readings[stat.guid][s]
               THEN [stat EXCEPT !.at = "hum", !.stamp = s, !.keys = @ \ {s}]
               ELSE [stat EXCEPT !.keys = @ \ {s}]
    /\ OnlyStat /\ UNCHANGED fails

\* Mutant: Hget is true for a field that is not there, as in accountLogic.
HgetHum_Nil ==
    /\ stat.at = "hum"
    /\ stat' = [stat EXCEPT !.at = "tem", !.stamp = Nil,
                            !.vec = @ \cup {<<stat.guid, stat.stamp>>}]
    /\ OnlyStat /\ UNCHANGED fails

HgetHum ==
    /\ stat.at = "hum"
    /\ stat' = [stat EXCEPT
          !.at = "tem", !.stamp = Nil,
          !.vec = IF "humidity" \in readings[stat.guid][stat.stamp]
                  THEN @ \cup {<<stat.guid, stat.stamp>>} ELSE @]
    /\ OnlyStat /\ UNCHANGED fails

\* One of the two fails: the mean is made without the reading.
HgetTemFails(s) ==
    /\ stat.at = "tem"
    /\ s \in stat.keys
    /\ fails < MaxFails
    /\ fails' = fails + 1
    /\ stat' = [stat EXCEPT !.keys = @ \ {s}, !.missed = @ \cup {stat.guid}]
    /\ OnlyStat

HgetHumFails ==
    /\ stat.at = "hum"
    /\ fails < MaxFails
    /\ fails' = fails + 1
    /\ stat' = [stat EXCEPT !.at = "tem", !.stamp = Nil, !.missed = @ \cup {stat.guid}]
    /\ OnlyStat

\* GetAvgHumiture: of everything read so far, the device's readings of that hour.
OfHour ==
    {s \in Stamps : /\ <<stat.guid, s>> \in stat.vec
                    /\ Day(s.hour) = stat.date
                    /\ HourOfDay(s.hour) = stat.hour}

\* A device without a reading is skipped.
GetAvg ==
    /\ stat.at = "tem"
    /\ stat.keys = {}
    /\ stat' = [stat EXCEPT
          !.at = "device", !.guid = Nil,
          !.made = IF OfHour = {} THEN @
                   ELSE Append(@, [guid |-> stat.guid, date |-> stat.date,
                                   hour |-> stat.hour, of |-> OfHour])]
    /\ OnlyStat /\ UNCHANGED fails

StatToDB ==
    /\ stat.at = "device"
    /\ stat.todo = {}
    /\ stat' = [stat EXCEPT !.at = "insert", !.vec = {}]
    /\ OnlyStat /\ UNCHANGED fails

\* DeviceHumitureStatToDB: an insert of its own for each row.
Insert ==
    /\ stat.at = "insert"
    /\ stat.made # <<>>
    /\ rows' = Append(rows, Head(stat.made))
    /\ stat' = [stat EXCEPT !.made = Tail(@)]
    /\ UNCHANGED <<now, full, reportVars, fails, known>>

\* No connection, or an exception: the rows that are left are lost.
InsertFails ==
    /\ stat.at = "insert"
    /\ fails < MaxFails
    /\ fails' = fails + 1
    /\ stat' = NoStat
    /\ OnlyStat

InsertsEnd ==
    /\ stat.at = "insert"
    /\ stat.made = <<>>
    /\ stat' = [stat EXCEPT !.at = "idle", !.date = 0, !.hour = 0, !.result = "success"]
    /\ OnlyStat /\ UNCHANGED fails

-----------------------------------------------------------------------------
ReportStep(d) ==
    \/ \E s \in Stamps : ReportTemperature(d, s) \/ Expires(d, s)
    \/ ReportHumidity(d)
    \/ ReportExpire(d)
    \/ ReportFails(d)

StatStep ==
    \/ RunSleepsOver
    \/ RunStarts
    \/ \E online \in SUBSET Devices : GetOnline(online)
    \/ GetOnlineFails
    \/ \E d \in Devices : GetKeys(d) \/ GetKeysFails(d)
    \/ \E s \in Stamps : HgetTem(s) \/ HgetTemFails(s)
    \/ HgetHum
    \/ HgetHumFails
    \/ GetAvg
    \/ StatToDB
    \/ Insert
    \/ InsertFails
    \/ InsertsEnd

HumitureNext == Tick \/ StatStep \/ \E d \in Devices : ReportStep(d)

HumitureSpec == HumitureInit /\ [][HumitureNext]_humitureVars

-----------------------------------------------------------------------------
(* Properties.                                                             *)

\* A row has whole readings only, of its own device and hour; nothing of the
\* next hour, nothing of the same hour of another day, and no device's twice.
RowsExact ==
    \A i \in DOMAIN rows :
        /\ rows[i].of # {}
        /\ \A s \in rows[i].of : /\ <<rows[i].guid, s>> \in stored
                                 /\ Day(s.hour) = rows[i].date
                                 /\ HourOfDay(s.hour) = rows[i].hour
        /\ \A j \in DOMAIN rows :
               (/\ rows[i].guid = rows[j].guid
                /\ rows[i].date = rows[j].date
                /\ rows[i].hour = rows[j].hour) => i = j

\* When the thread is through without an error, every device that was online, and
\* of which it has missed no reading, has a row of the hour that was over, and its
\* mean is made of all the readings that were there: none of the devices and the hours
\* that went before, no half of a reading and no key that goes meanwhile makes it
\* skip one.  "No data, then skip" (ontime_thread.cc:87) is not true at midnight:
\* the thread then looks for the last hour of the day that begins.
HoursCounted ==
    (/\ stat.at = "idle"
     /\ stat.result = "success"
     /\ HourOfDay(stat.began) # 0) =>
        \A d \in stat.online \ stat.missed :
            LET due == {s \in Stamps : <<d, s>> \in known}
            IN due # {} => \E i \in DOMAIN rows :
                   /\ rows[i].guid = d
                   /\ due \subseteq rows[i].of
                   /\ rows[i].date = Day(stat.began)
                   /\ rows[i].hour = HourOfDay(stat.began) - 1

\* tb_device_humiture says of an hour what the devices have reported of it.
StatisticsRight == RowsExact /\ HoursCounted
=============================================================================
