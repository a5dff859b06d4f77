----------------------------- MODULE StateSampler -----------------------------
(* c_aws1_state and its sampler (aws_state.hpp, aws_state.cpp): a ring of     *)
(* timed values for each sensor, and a sampler that, whenever a value         *)
(* arrives, reads all sensors at a common time as often as they allow it, at  *)
(* 10 Hz and at 1 Hz, into rings of its own.                                  *)
(*                                                                            *)
(* A sensor's value is the time it was measured, so that a sample shows which *)
(* time it stands for: a fraction, as it is interpolated.                     *)
EXTENDS Integers, FiniteSetsExt

CONSTANTS SensorSets,   \* the sensors a behaviour is about; the others are
                        \* taken to have a value at every time
          Delays,       \* of the attitude (set_gps_attitude_delay)
          SizeBuf,      \* size of every ring (SAMPLER_SIZE)
          MaxSampled,   \* bound on the times
          MaxTwice,     \* bound on the times at which a sensor is given two values
          Lateness      \* how much later than asked a sample may be

ASSUME SamplerAssumption ==
  /\ SizeBuf \in Nat /\ SizeBuf >= 3 /\ MaxSampled \in Nat /\ MaxTwice \in Nat
  /\ Delays \subseteq Nat /\ Lateness \subseteq Nat

VARIABLES sensors, tatt_delay, ring, smp,
          sampling,     \* the rate whose loop runs in an add_ function
          twice         \* history: <<s, t>>, sensor s was given two values of time t

samplerVars == <<sensors, tatt_delay, ring, smp, sampling, twice>>

Rates == {"10hz", "1hz"}
Interpolated == [r \in Rates |-> IF r = "10hz" THEN {"gll", "hev", "vtg", "hpr", "rev"}
                                 ELSE {"engd", "mda", "dbt"}]
Held == [r \in Rates |-> IF r = "10hz" THEN {"eng", "rud"} ELSE {}]
Slots == 0..(SizeBuf - 1)
Dt == 1                         \* dt: both rates sample at this interval
NoSlot == [t |-> -1, val |-> <<>>, rate |-> <<>>, accel |-> <<>>]
Undefined == <<0, 0>>           \* a value read outside of the ring, or 0 / 0

EmptyRing == [t |-> [i \in Slots |-> -1], tail |-> 0, num |-> 0, tmax |-> -1, tmin |-> -1]
EmptySampler(t) == [slot |-> [i \in Slots |-> NoSlot], tail |-> 0, num |-> 0, t |-> t]

SamplerInit ==
  /\ sensors \in SensorSets
  /\ tatt_delay \in Delays
  /\ ring = [s \in sensors |-> EmptyRing]
  /\ smp = [r \in Rates |-> EmptySampler(-1)] /\ sampling = "none" /\ twice = {}
-------------------------------------------------------------------------------
(* find_sample_index: the slots before and after time t, from the newest      *)
(* backwards.                                                                 *)
Back(q, k) == (q.tail - k) % SizeBuf
find_sample_index(q, t) ==
  LET fits == {k \in 1..(SizeBuf - 1) : q.t[Back(q, k + 1)] <= t /\ q.t[Back(q, k)] >= t}
  IN  IF q.t[Back(q, 1)] < t THEN <<Back(q, 1), SizeBuf>>
      ELSE IF q.t[q.tail] > t THEN <<-1, q.tail>>
      ELSE IF fits = {} THEN <<-1, -1>>
      ELSE <<Back(q, Min(fits) + 1), Back(q, Min(fits))>>

\* What a slot that was never written holds.
ValueIn(q, i) == IF q.t[i] = -1 THEN 0 ELSE q.t[i]

(* calc_sample_coef and the weighted sum: 0 / 0 for two values of one time.   *)
Interpolate(q, t) ==
  LET p == find_sample_index(q, t)
      ta == q.t[p[1]]
      tb == q.t[p[2]]
  IN  IF {p[1], p[2]} \subseteq Slots
      THEN <<ValueIn(q, p[1]) * (tb - t) + ValueIn(q, p[2]) * (t - ta), tb - ta>> ELSE Undefined

\* A bug: of the two values around the time it is the later one.
HeldAfter(q, t) ==
  LET p == find_sample_index(q, t)
  IN  IF p[2] \in Slots THEN <<ValueIn(q, p[2]), 1>> ELSE Undefined
HeldValue(q, t) ==
  LET p == find_sample_index(q, t)
  IN  IF p[1] \in Slots THEN <<ValueIn(q, p[1]), 1>> ELSE Undefined

is_samplable(q, t) == q.tmin <= t /\ t <= q.tmax
TimeOf(s, t) == IF s = "hpr" THEN t + tatt_delay ELSE t

(* is_10hz_data_samplable and is_1hz_data_samplable.                          *)
Samplable(rg, r, t) ==
  /\ \A s \in sensors \cap Interpolated[r] : is_samplable(rg[s], TimeOf(s, t))
  /\ \A s \in sensors \cap Held[r] : rg[s].tmin >= 0

(* c_aws1_state::sample_10hz_data and sample_1hz_data.                        *)
Sampled(rg, r, t) ==
  [s \in sensors \cap (Interpolated[r] \union Held[r]) |->
     IF s \in Held[r] THEN HeldValue(rg[s], t) ELSE Interpolate(rg[s], TimeOf(s, t))]

(* The intervals of the differences at 10 Hz.  Turn rates (dr_dt, ...): from   *)
(* the sample before for the newest, and for the one before it from its       *)
(* neighbours; accelerations (w, du_dt, dv_dt) are stored with the newest in  *)
(* either case.                                                               *)
\* A bug: turn rates are, too.
RatesAtNewest(slot, ip, num) ==
  LET i0 == (ip - 1) % SizeBuf
      in == (ip - 2) % SizeBuf
      over == <<slot[IF num > 2 THEN in ELSE i0].t, slot[ip].t>>
  IN  IF num = 1 THEN slot ELSE [slot EXCEPT ![ip].rate = over, ![ip].accel = over]
Rates10hz(slot, ip, num) ==
  LET i0 == (ip - 1) % SizeBuf
      in == (ip - 2) % SizeBuf
  IN  [i \in Slots |->
         IF i = ip /\ num > 1
         THEN [slot[i] EXCEPT !.rate = <<slot[i0].t, slot[ip].t>>,
                              !.accel = <<slot[IF num > 2 THEN in ELSE i0].t, slot[ip].t>>]
         ELSE IF i = i0 /\ num > 2 THEN [slot[i] EXCEPT !.rate = <<slot[in].t, slot[ip].t>>]
         ELSE slot[i]]

\* A bug: the sample is booked at the time that was asked for.
TimeAsked(x, t) == x.t + Dt
TimeTaken(x, t) == t

(* The sampler x after a turn of its loop, with a sample of time t.           *)
Sample(x, rg, r, t) ==
  LET fresh == [t |-> t, val |-> Sampled(rg, r, t), rate |-> <<>>, accel |-> <<>>]
      slot == [x.slot EXCEPT ![x.tail] = fresh]
  IN  [slot |-> IF r = "10hz" THEN Rates10hz(slot, x.tail, x.num + 1) ELSE slot,
       tail |-> (x.tail + 1) % SizeBuf, num |-> x.num + 1, t |-> TimeTaken(x, t)]

\* get_10hz_data_samplable_time and get_1hz_data_samplable_time are called and
\* declared nowhere in the repository.  From the call, what they are asked for is
\* the time of the next sample, if there can be one at it, else a later one.
NextTime(r, late) == smp[r].t + Dt + late

sample_data ==
  /\ sampling # "none"
  /\ \E late \in Lateness :
       LET t == NextTime(sampling, late)
       IN  /\ Samplable(ring, sampling, t)
           /\ smp' = [smp EXCEPT ![sampling] = Sample(@, ring, sampling, t)]
  /\ UNCHANGED <<sensors, tatt_delay, ring, sampling, twice>>

SamplingEnds ==
  /\ sampling # "none"
  /\ \E late \in Lateness : ~Samplable(ring, sampling, NextTime(sampling, late))
  /\ sampling' = "none" /\ UNCHANGED <<sensors, tatt_delay, ring, smp, twice>>

(* append, and the bookkeeping of a ring that each add_ function has.         *)
\* A bug: the oldest time stays when a full ring loses its oldest value.
OldestStays(q, ts, tail) == q.tmin
Oldest(q, ts, tail) == ts[tail]

Appended(q, t) ==
  LET ts == [q.t EXCEPT ![q.tail] = t]
      tail == (q.tail + 1) % SizeBuf
      full == q.num = SizeBuf
  IN  [t |-> ts, tail |-> tail, num |-> IF full THEN q.num ELSE q.num + 1, tmax |-> t,
       tmin |-> IF full THEN Oldest(q, ts, tail) ELSE ts[0]]

\* A value older than the newest is dropped, one of the same time is not.
\* (ch_state leaves out a position, attitude or velocity of the time of the last
\* it was given, no other value, and not one of a time given before that.)
Add(s, r, t) ==
  /\ sampling = "none" /\ s \in sensors /\ t >= ring[s].tmax
  /\ ring' = [ring EXCEPT ![s] = Appended(@, t)]
  /\ sampling' = r
  /\ twice' = IF t = ring[s].tmax THEN twice \union {<<s, t>>} ELSE twice
  /\ Cardinality(twice') <= MaxTwice
  /\ UNCHANGED <<sensors, tatt_delay, smp>>

add_engr(t) == Add("rev", "10hz", t)
add_engd(t) == Add("engd", "1hz", t)
add_position(t) == Add("gll", "10hz", t)
add_velocity(t) == Add("vtg", "10hz", t)
add_attitude(t) == Add("hpr", "10hz", t)
add_heave(t) == Add("hev", "10hz", t)
add_mda(t) == Add("mda", "1hz", t)
add_depth(t) == Add("dbt", "1hz", t)
add_eng(t) == Add("eng", "10hz", t)
add_rud(t) == Add("rud", "10hz", t)

\* set_time starts the samplers anew at a time; clear empties everything but
\* leaves the samplers their times.  What is left in the rings is not read.
set_state_time(t) ==
  /\ sampling = "none"
  /\ smp' = [r \in Rates |-> EmptySampler(t + tatt_delay)]
  /\ UNCHANGED <<sensors, tatt_delay, ring, sampling, twice>>
clear_state ==
  /\ sampling = "none"
  /\ ring' = [s \in sensors |-> EmptyRing]
  /\ smp' = [r \in Rates |-> EmptySampler(smp[r].t)]
  /\ UNCHANGED <<sensors, tatt_delay, sampling, twice>>

SamplerNext ==
  \/ \E t \in 0..MaxSampled :
       \/ add_engr(t) \/ add_engd(t) \/ add_position(t) \/ add_velocity(t) \/ add_attitude(t)
       \/ add_heave(t) \/ add_mda(t) \/ add_depth(t) \/ add_eng(t) \/ add_rud(t)
       \/ set_state_time(t)
  \/ sample_data \/ SamplingEnds \/ clear_state

SamplerSpec == SamplerInit /\ [][SamplerNext]_samplerVars
-------------------------------------------------------------------------------
(* get_10hz_data and get_time_10hz_data (and the 1 Hz ones) for the newest    *)
(* sample, idx 0.                                                             *)
get_data(r) == smp[r].slot[(smp[r].tail - 1) % SizeBuf]
get_time(r) == IF smp[r].num > 0 THEN smp[r].t ELSE -1

Live(r) == {i \in Slots : \E k \in 1..SizeBuf : k <= smp[r].num /\ i = (smp[r].tail - k) % SizeBuf}

(* Every interpolated value in a sample is of the sample's time, wherever it  *)
(* lies in the sensor's ring and however the sensors' values interleave; the  *)
(* attitude is of the time its delay asks for.  Only where the sensor was     *)
(* given two values of that very time is it 0 / 0 instead.                    *)
SampleIsOfItsTime ==
  \A r \in Rates : \A i \in Live(r) : \A s \in sensors \cap Interpolated[r] :
    LET x == smp[r].slot[i]
    IN  \/ x.val[s][2] > 0 /\ x.val[s][1] = TimeOf(s, x.t) * x.val[s][2]
        \/ x.val[s] = Undefined /\ <<s, TimeOf(s, x.t)>> \in twice

(* A held value is one the sensor had by the sample's time (or the initial 0),*)
(* unless its ring no longer reached back so far.                             *)
HeldIsNotFuture ==
  \A i \in Live("10hz") : \A s \in sensors \cap Held["10hz"] :
    LET x == smp["10hz"].slot[i]
    IN  x.val[s] # Undefined => x.val[s][1] <= x.t

(* The newest sample's data and time belong together.                         *)
NewestIsAtItsTime == \A r \in Rates : smp[r].num > 0 => get_data(r).t = get_time(r)

(* A difference is over an interval that contains its sample's time, and turn *)
(* rates of all but the newest sample reach to both sides.                    *)
Around(over, t) == over # <<>> => over[1] < t /\ t <= over[2]
RatesAroundSample ==
  \A i \in Live("10hz") :
    LET x == smp["10hz"].slot[i]
    IN  /\ Around(x.rate, x.t) /\ Around(x.accel, x.t)
        /\ x.rate # <<>> /\ x.t # get_time("10hz") => x.t < x.rate[2]

(* Samples are of their time, in their values, rates and stamps.              *)
SamplesFitTheirTime == SampleIsOfItsTime /\ HeldIsNotFuture /\ NewestIsAtItsTime /\ RatesAroundSample
=============================================================================
