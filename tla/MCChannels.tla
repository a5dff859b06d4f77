------------------------------ MODULE MCChannels ------------------------------
(* One channel and one decoder of each kind for TLC.  They share nothing, so  *)
(* a behaviour is about one of them (kind) and the others stay as they were   *)
(* constructed.                                                               *)
EXTENDS DataQueue, NmeaQueue, RingBuffer, MCStores

ChannelsInit ==
  /\ kind \in {"data", "nmea", "ring"} \union DecoderKinds \union StoreKinds
  /\ Init /\ NmeaInit /\ RingInit /\ DecodersInit /\ StoresInit
  /\ kind # "ring" => \A i \in DOMAIN ring_buf : ring_buf[i] = CHOOSE e \in Elements : TRUE

ChannelsNext ==
  /\ UNCHANGED kind
  /\ \/ kind = "data" /\ Next /\ UNCHANGED <<nmeaVars, ringVars, decoderVars, storeVars>>
     \/ kind = "nmea" /\ NmeaNext /\ UNCHANGED <<vars, ringVars, decoderVars, storeVars>>
     \/ kind = "ring" /\ RingNext /\ UNCHANGED <<vars, nmeaVars, decoderVars, storeVars>>
     \/ DecodersNext /\ UNCHANGED <<vars, nmeaVars, ringVars, storeVars>>
     \/ StoresNext /\ UNCHANGED <<vars, nmeaVars, ringVars, decoderVars>>

ChannelsSpec == ChannelsInit /\ [][ChannelsNext]_<<kind, vars, nmeaVars, ringVars, decoderVars, storeVars>>
=============================================================================
