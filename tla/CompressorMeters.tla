--------------------------- MODULE CompressorMeters ---------------------------
(***************************************************************************)
(* The hour meters of a compressor (src/app/routers/compressors.py) that   *)
(* comes from the Equipment register (src/app/compressor_register.py).     *)
(* The daily entry gives the meter's totals; the backend works out the     *)
(* day's hours from the entry before it, carries the totals of the latest  *)
(* entry to the compressor and schedules the service that is next.  The    *)
(* calls of an entry are steps of their own; the other handlers change one *)
(* row at once.                                                            *)
(***************************************************************************)
EXTENDS Integers, FiniteSets, FiniteSetsExt

CONSTANTS
    Entries,             \* requests to POST /daily-entries/cumulative
    Dates,               \* days of an entry
    Totals,              \* what an operator may read off: [run, load]
    SERVICE_MILESTONES,  \* hours of the services, here and in service_intervals
    NoMeter, NoReading,
    MaxEntries,          \* bound: entries in a behaviour
    MaxMeterFaults,      \* bound: calls that fail
    MaxEdits             \* bound: changes to the register and the compressor's row

Hours == [run : Nat, load : Nat]
Meters == [name : {"old", "new", "absent", "typed"}, status : {"standby", "running", "offline"},
           linked : BOOLEAN, initial : Hours, total : Hours]

ASSUME MeterAssumption ==
    Dates \subseteq Nat /\ Totals \subseteq Hours /\ SERVICE_MILESTONES \subseteq Nat /\ NoMeter \notin Meters

VARIABLES
    register,    \* the unit in the Equipment register: its name, or absent
    meter,       \* its row in compressors, or NoMeter
    readings,    \* compressor_readings
    due_service, \* maintenance_schedule: rows [interval, urgency, by]
    alerts,      \* intervals an alert was raised for
    entry,       \* per request: where it is and what it has read
    excuses,     \* history: what happened that the tallies do not survive
    entered, faults, edits  \* counts

meter_vars == <<register, meter, readings, due_service, alerts, entry, excuses, entered, faults, edits>>

Zero == [run |-> 0, load |-> 0]
NoEntry == [pc |-> "idle", date |-> 0, total |-> Zero, initial |-> Zero, reading |-> NoReading, schedule |-> NoReading]

MetersInit ==
    /\ register = "old" /\ meter = NoMeter /\ readings = {} /\ due_service = {} /\ alerts = {}
    /\ entry = [e \in Entries |-> NoEntry]
    /\ excuses = {} /\ entered = 0 /\ faults = 0 /\ edits = 0

-----------------------------------------------------------------------------
(* The helpers. *)
\* The capped hours of the day and the total loaded hours they lead to.
ensure_valid_daily_hours(day, previous) ==
    LET load == IF day.load > day.run THEN day.run ELSE day.load
    IN  [run |-> day.run, load |-> load, total |-> previous.load + load]

generate_service_intervals(hours) == {m \in SERVICE_MILESTONES : m > hours}
NextService(hours) == Min(generate_service_intervals(hours))

Rank(urgency) == CASE urgency = "critical" -> 0 [] urgency = "high" -> 1 [] urgency = "medium" -> 2 [] OTHER -> 3
ByDays(days) == IF days <= 0 THEN "critical" ELSE IF days <= 7 THEN "high" ELSE IF days <= 30 THEN "medium" ELSE "low"

\* Eight hours a day: a fraction of a day counts when the list is shown ...
get_service_urgency(hours) == ByDays((hours + 7) \div 8)
\* ... and is cut off when the schedule is written.
StoredUrgency(hours) == ByDays(hours \div 8)

-----------------------------------------------------------------------------
(* The compressor's row. *)
Fresh(name, initial) == [name |-> name, status |-> "standby", linked |-> TRUE, initial |-> initial, total |-> initial]

\* get_compressors: the unit gets its row (the unique index on equipment_id lets one
\* request create it), or the row the register's name.
sync_from_register ==
    /\ register # "absent"
    /\ \/ meter = NoMeter /\ meter' = Fresh(register, Zero)
       \/ /\ meter # NoMeter /\ meter.linked /\ meter.name # register
          /\ meter' = [meter EXCEPT !.name = register]
    /\ UNCHANGED <<register, readings, due_service, alerts, entry, excuses, entered, faults, edits>>

\* One that is tracked already is answered as it is.
create_compressor(initial) ==
    /\ register # "absent" /\ meter = NoMeter
    /\ meter' = Fresh(register, initial)
    /\ UNCHANGED <<register, readings, due_service, alerts, entry, excuses, entered, faults, edits>>

\* The name of a unit of the register is not changed here; the totals are, whatever
\* the readings say.
update_compressor(patch) ==
    /\ meter # NoMeter /\ edits < MaxEdits
    /\ edits' = edits + 1
    /\ meter' = [f \in DOMAIN meter |-> IF f \in DOMAIN patch /\ ~(f = "name" /\ meter.linked)
                                        THEN patch[f] ELSE meter[f]]
    /\ excuses' = excuses \cup (IF "initial" \in DOMAIN patch THEN {"reset"} ELSE {})
                          \cup (IF "total" \in DOMAIN patch THEN {"typed"} ELSE {})
    /\ UNCHANGED <<register, readings, due_service, alerts, entry, entered, faults>>

update_compressor_status(status) ==
    /\ meter # NoMeter /\ edits < MaxEdits
    /\ edits' = edits + 1
    /\ meter' = [meter EXCEPT !.status = status]
    /\ UNCHANGED <<register, readings, due_service, alerts, entry, excuses, entered, faults>>

\* Refused for a unit of the register; what names the compressor goes with it.
delete_compressor ==
    /\ meter # NoMeter /\ ~meter.linked
    /\ meter' = NoMeter /\ readings' = {} /\ due_service' = {} /\ alerts' = {}
    /\ UNCHANGED <<register, entry, excuses, entered, faults, edits>>

\* The register renames the unit, or loses it (on delete set null).
RegisterChanges ==
    /\ register # "absent" /\ edits < MaxEdits
    /\ edits' = edits + 1
    /\ register' \in {"new", "absent"}
    /\ meter' = IF register' = "absent" /\ meter # NoMeter THEN [meter EXCEPT !.linked = FALSE] ELSE meter
    /\ UNCHANGED <<readings, due_service, alerts, entry, excuses, entered, faults>>

-----------------------------------------------------------------------------
(* create_daily_entry_cumulative *)
At(e, pc) == entry[e].pc = pc
LaterThan(date) == {r \in readings : r.date > date}
Busy(e) == \E f \in Entries \ {e} : entry[f].pc # "idle"

\* 404 without a compressor.
LoadMeter(e, date, total) ==
    /\ At(e, "idle") /\ entered < MaxEntries /\ meter # NoMeter
    /\ entered' = entered + 1
    /\ entry' = [entry EXCEPT ![e] =
           [NoEntry EXCEPT !.pc = "readings", !.date = date, !.total = total, !.initial = meter.initial]]
    /\ UNCHANGED <<register, meter, readings, due_service, alerts, excuses, faults, edits>>

\* All readings, latest first: the one of this day, if there is one, and the one
\* before it; a meter that ran backwards is refused.
Existing(date) == {r \in readings : r.date = date}
Previous(date) ==
    LET before == {r \in readings : r.date < date}
    IN  {r \in before : \A s \in before : s.date <= r.date}
LoadReadings(e) ==
    /\ At(e, "readings")
    /\ LET me == entry[e]
       IN \E previous \in IF Previous(me.date) = {} THEN {me.initial} ELSE {r.total : r \in Previous(me.date)},
             id \in IF Existing(me.date) = {} THEN {0} ELSE {r.id : r \in Existing(me.date)} :
          entry' = [entry EXCEPT ![e] =
            IF me.total.run < previous.run \/ me.total.load < previous.load THEN NoEntry
            ELSE LET day == [run |-> me.total.run - previous.run, load |-> me.total.load - previous.load]
                     valid == ensure_valid_daily_hours(day, previous)
                     total == [run |-> me.total.run, load |-> valid.total]
                 IN  [me EXCEPT !.pc = "store", !.total = total,
                                !.reading = [id |-> id, date |-> me.date, total |-> total,
                                             run |-> valid.run, load |-> valid.load]]]
    /\ UNCHANGED <<register, meter, readings, due_service, alerts, excuses, entered, faults, edits>>

\* An update of the day's reading by its id, or an insert; the readings after it stay
\* as they are (nothing calls recalculate_subsequent_readings).
StoreReading(e) ==
    /\ At(e, "store")
    /\ LET mine == entry[e].reading
           new == IF mine.id = 0 THEN [mine EXCEPT !.id = entered + Cardinality(readings)] ELSE mine
       IN  /\ readings' = IF mine.id = 0 THEN readings \cup {new}
                          ELSE {IF r.id = mine.id THEN mine ELSE r : r \in readings}
           /\ excuses' = excuses \cup (IF LaterThan(mine.date) # {} THEN {"backdated"} ELSE {})
                                 \cup (IF Busy(e) THEN {"overlapped"} ELSE {})
    /\ entry' = [entry EXCEPT ![e].pc = "latest"]
    /\ UNCHANGED <<register, meter, due_service, alerts, entered, faults, edits>>

\* A mutant: the totals are carried whatever the date.
AlwaysLatest(e) ==
    /\ At(e, "latest")
    /\ entry' = [entry EXCEPT ![e].pc = "carry"]
    /\ UNCHANGED <<register, meter, readings, due_service, alerts, excuses, entered, faults, edits>>

\* Is this the most recent reading?
ReadLatest(e) ==
    /\ At(e, "latest")
    /\ entry' = [entry EXCEPT ![e].pc =
           IF readings # {} /\ Max({r.date : r \in readings}) = entry[e].date THEN "carry" ELSE "service"]
    /\ UNCHANGED <<register, meter, readings, due_service, alerts, excuses, entered, faults, edits>>

CarryTotals(e) ==
    /\ At(e, "carry")
    /\ meter' = IF meter = NoMeter THEN NoMeter ELSE [meter EXCEPT !.total = entry[e].total]
    /\ excuses' = excuses \ {"failed", "typed"}
    /\ entry' = [entry EXCEPT ![e].pc = "service"]
    /\ UNCHANGED <<register, readings, due_service, alerts, entered, faults, edits>>

-----------------------------------------------------------------------------
(* check_and_update_service_due, with the hours of the entry. *)

\* The compressor, the intervals and whether the next one has its schedule.
LookUpSchedule(e) ==
    /\ At(e, "service")
    /\ LET hours == entry[e].total.run
           next == NextService(hours)
       IN  entry' = [entry EXCEPT ![e] =
               IF meter = NoMeter \/ generate_service_intervals(hours) = {} THEN NoEntry
               ELSE [@ EXCEPT !.pc = "schedule",
                              !.schedule = [interval |-> next, urgency |-> StoredUrgency(next - hours),
                                            found |-> \E s \in due_service : s.interval = next]]]
    /\ UNCHANGED <<register, meter, readings, due_service, alerts, excuses, entered, faults, edits>>

StoreSchedule(e) ==
    /\ At(e, "schedule")
    /\ LET new == entry[e].schedule
       IN  /\ due_service' =
                 IF new.found
                 THEN {IF s.interval = new.interval THEN [s EXCEPT !.urgency = new.urgency] ELSE s : s \in due_service}
                 ELSE due_service \cup {[interval |-> new.interval, urgency |-> new.urgency, by |-> e]}
           /\ entry' = [entry EXCEPT ![e] = IF Rank(new.urgency) <= 1 THEN [@ EXCEPT !.pc = "alert"] ELSE NoEntry]
    /\ UNCHANGED <<register, meter, readings, alerts, excuses, entered, faults, edits>>

RaiseAlert(e) ==
    /\ At(e, "alert")
    /\ alerts' = alerts \cup {entry[e].schedule.interval}
    /\ entry' = [entry EXCEPT ![e] = NoEntry]
    /\ UNCHANGED <<register, meter, readings, due_service, excuses, entered, faults, edits>>

\* A call fails: 500, or, while the service is looked up, a line in the log.
EntryFails(e) ==
    /\ entry[e].pc # "idle" /\ faults < MaxMeterFaults
    /\ faults' = faults + 1
    /\ entry' = [entry EXCEPT ![e] = NoEntry]
    /\ excuses' = IF entry[e].pc \in {"readings", "store"} THEN excuses ELSE excuses \cup {"failed"}
    /\ UNCHANGED <<register, meter, readings, due_service, alerts, entered, edits>>

MetersNext ==
    \/ sync_from_register \/ delete_compressor \/ RegisterChanges
    \/ \E t \in Totals : create_compressor(t) \/ update_compressor([total |-> t]) \/ update_compressor([initial |-> t])
    \/ update_compressor([name |-> "typed"])
    \/ \E s \in {"running", "offline"} : update_compressor_status(s)
    \/ \E e \in Entries :
          \/ \E d \in Dates, t \in Totals : LoadMeter(e, d, t)
          \/ LoadReadings(e) \/ StoreReading(e) \/ ReadLatest(e) \/ CarryTotals(e)
          \/ LookUpSchedule(e) \/ StoreSchedule(e) \/ RaiseAlert(e) \/ EntryFails(e)

MetersSpec == MetersInit /\ [][MetersNext]_meter_vars

-----------------------------------------------------------------------------
(* What is shown. *)
InRange(from) == {r \in readings : r.date >= from}
SumOf(hours) == MapThenSumSet(LAMBDA r : hours[r], DOMAIN hours)

\* The cumulative hours of each reading, started at the initial totals whatever
\* the first date asked for.
get_detailed_readings(from) ==
    LET upTo(date) == {r \in InRange(from) : r.date <= date}
    IN  {[date |-> r.date, total |-> r.total,
          cumulative |-> [run |-> meter.initial.run + SumOf([s \in upTo(r.date) |-> s.run]),
                          load |-> meter.initial.load + SumOf([s \in upTo(r.date) |-> s.load])]] : r \in InRange(from)}

get_performance_metrics ==
    [readings |-> Cardinality(readings), run |-> SumOf([r \in readings |-> r.run]),
     load |-> SumOf([r \in readings |-> r.load]), total |-> meter.total,
     downtime |-> Cardinality({r \in readings : r.run = 0})]

get_service_due ==
    LET hours == meter.total.run
    IN  IF generate_service_intervals(hours) = {} THEN {}
        ELSE {[interval |-> NextService(hours), urgency |-> get_service_urgency(NextService(hours) - hours)]}

\* Services within 240 hours.
get_stats ==
    [active |-> meter.status \in {"running", "standby"},
     upcoming |-> {m \in generate_service_intervals(meter.total.run) :
                       m = NextService(meter.total.run) /\ m - meter.total.run <= 240}]

-----------------------------------------------------------------------------
(* Properties *)
Without(some) == meter # NoMeter /\ excuses \cap some = {}
AllIdle == \A e \in Entries : At(e, "idle")

\* The hours of the days, added to where the meter started, are what the meter reads,
\* in the detailed list and the metrics.
DaysAddUp ==
    Without({"backdated", "overlapped", "reset"}) =>
        /\ \A r \in get_detailed_readings(0) : r.cumulative = r.total
        /\ \A r \in readings : r.load <= r.run

\* The compressor shows the totals of its latest reading, and so does the report
\* that adds the days up.
TotalsFollowReadings ==
    AllIdle /\ readings # {} /\ Without({"overlapped", "failed", "typed"}) =>
        /\ \E r \in readings : r.total = meter.total /\ \A s \in readings : s.date <= r.date
        /\ Without({"backdated", "reset"}) =>
               get_performance_metrics.run = meter.total.run - meter.initial.run

\* The service that is next is in the schedule once, never with less urgency than the
\* list of services due shows; the dashboard counts it when the list is not low.
ServiceIsScheduled ==
    AllIdle /\ readings # {} /\ Without({"overlapped", "failed", "typed", "backdated"}) =>
        \A d \in get_service_due :
            /\ \E s \in due_service : s.interval = d.interval /\ Rank(s.urgency) <= Rank(d.urgency)
            /\ Cardinality({s \in due_service : s.interval = d.interval}) = 1
            /\ get_stats.upcoming # {} <=> d.urgency # "low"

MetersTypeOK ==
    /\ register \in {"old", "new", "absent"}
    /\ \A r \in readings : r.date \in Dates /\ r.run \in Nat /\ r.load \in Nat
    /\ \A s \in due_service : s.interval \in SERVICE_MILESTONES
    /\ alerts \subseteq SERVICE_MILESTONES
    /\ excuses \subseteq {"backdated", "overlapped", "reset", "typed", "failed"}
    /\ meter # NoMeter /\ meter.linked => register # "absent"

\* Entries made one at a time and in the order of their days keep the meter, its
\* readings and its services in step; each excuse is a way the code loses that.
MeterTallies == MetersTypeOK /\ DaysAddUp /\ TotalsFollowReadings /\ ServiceIsScheduled
=============================================================================
