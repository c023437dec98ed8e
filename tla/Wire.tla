-------------------------------- MODULE Wire --------------------------------
(***************************************************************************)
(* The messages of grpc/proto/proto/cashmere.proto and the conversions of  *)
(* grpc/utils/src/grpcutils.cpp.  A protobuf map is a set of pairs of a    *)
(* key and a value, which has no order; a message is a record.             *)
(***************************************************************************)
EXTENDS Clocks

Keys(map) == {pair[1] : pair \in map}

\* The value under a key of a protobuf map.
Field(map, key) == (CHOOSE pair \in map : pair[1] = key)[2]

SetClock(data) == {<<id, data[id]>> : id \in DOMAIN data}

ClockFrom(version) == [id \in Keys(version) |-> Field(version, id)]

SetData(data) == [id |-> data.id, value |-> data.value, alters |-> SetClock(data.alters)]

DataFrom(data) == [id |-> data.id, value |-> data.value, alters |-> ClockFrom(data.alters)]

SetEntry(e) ==
  [clock |-> SetClock(e.clock),
   data |-> SetData([id |-> e.id, value |-> e.value, alters |-> e.alters])]

EntryFrom(entry) ==
  LET data == DataFrom(entry.data)
  IN  [clock |-> ClockFrom(entry.clock), id |-> data.id, value |-> data.value, alters |-> data.alters]

SetConnectionInfo(data) == [distance |-> data.distance, clock |-> SetClock(data.clock)]

SetIdConnectionInfoMap(data) == {<<id, SetConnectionInfo(data[id])>> : id \in DOMAIN data}

IdConnectionInfoMapFrom(sources) ==
  [id \in Keys(sources) |->
     [distance |-> Field(sources, id).distance, clock |-> ClockFrom(Field(sources, id).clock)]]

SetSources(sources) == {<<source, SetIdConnectionInfoMap(sources[source])>> : source \in DOMAIN sources}

SourcesFrom(sources) == [source \in Keys(sources) |-> IdConnectionInfoMapFrom(Field(sources, source))]

=============================================================================
