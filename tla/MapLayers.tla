------------------------------- MODULE MapLayers -------------------------------
(* The layer data of the map (aws_map.cpp, aws_map_coast_line.cpp): a node    *)
(* and the nodes below it each keep the coast lines of their triangle, in     *)
(* memory while they are on LayerData's list and in a file otherwise.         *)
(*                                                                            *)
(* Two levels of nodes, that stay in memory: those below are never too large. *)
(* A reader drops its pointers while no other thread is in the database,      *)
(* which takes a lock the pointers do not. A process may end between two      *)
(* calls, or within one that has begun to write over a file or an index.      *)
EXTENDS Integers, FiniteSetsExt, SequencesExt

CONSTANTS Charts, Place,  \* coast lines and the lower node each lies in
          Closed,         \* the lines that end where they begin
          Below,          \* the lower nodes, in their order
          MaxSizeLayerData, MaxTotalSizeLayerData,
          \* bounds: pointers handed out; saves and crashes; lines inserted
          MaxPtrs, MaxSaves, MaxInserts

\* Each line lies in one of the lower nodes, none of which is the upper one.
ASSUME MapAssumption ==
  /\ IsFiniteSet(Charts) /\ Below \in Seq(Range(Below)) /\ IsInjective(Below) /\ "up" \notin Range(Below)
  /\ Place \in [Charts -> Range(Below)] /\ Closed \subseteq Charts
  /\ MaxSizeLayerData \in Nat /\ MaxTotalSizeLayerData \in Nat
  /\ MaxPtrs \in Nat /\ MaxSaves \in Nat /\ MaxInserts \in Nat

VARIABLES list,        \* head first
          layer,       \* of each node: active, lines, size, bupdate, refcount
          totalSize,
          file,        \* of each node: the lines saved
          node,        \* of each node: hasLayer, bdownLink, bupdate
          mapIndex,    \* of each node: hasLayer and bdownLink as saved
          inserted, saved, saves, inserts

mapVars == <<list, layer, totalSize, file, node, mapIndex, inserted, saved, saves, inserts>>
\* A call starts from the variables; cuts are the disks it has passed through.
db == [list |-> list, layer |-> layer, total |-> totalSize, file |-> file, node |-> node, index |-> mapIndex,
       cuts |-> {}]

Layers == {"up"} \union Range(Below)
\* The points of a line: 0 none, 1 when reduced, 2 in full.
NoLines == [c \in Charts |-> 0]
SizeOf(lines) == SumFunctionOnSet(lines, Charts)
Inactive == [active |-> FALSE, lines |-> NoLines, size |-> 0, bupdate |-> FALSE, refcount |-> 0]
NewNode == [hasLayer |-> FALSE, bdownLink |-> FALSE]
Updated(n, b) == [hasLayer |-> n.hasLayer, bdownLink |-> n.bdownLink, bupdate |-> b]

MapInit ==
  /\ list = <<>> /\ layer = [l \in Layers |-> Inactive] /\ totalSize = 0
  /\ file = [l \in Layers |-> NoLines]
  /\ node = [l \in Layers |-> Updated(NewNode, FALSE)] /\ mapIndex = [l \in Layers |-> NewNode]
  /\ inserted = {} /\ saved = {} /\ saves = 0 /\ inserts = 0
-------------------------------------------------------------------------------
(* LayerData                                                                  *)
PopLayer(d, l) == [d EXCEPT !.list = RemoveFirst(@, l), !.total = @ - d.layer[l].size]

\* A bug: the lines are not written.
Save_FlagAlone(d, l) == [d EXCEPT !.layer[l].bupdate = FALSE]
\* The file is truncated and written anew: until it is closed any lines may be missing.
Begun(lines) == {[c \in Charts |-> IF c \in t THEN lines[c] ELSE 0] : t \in SUBSET Charts}
FilesCut(d, l) == {[file |-> [d.file EXCEPT ![l] = p], index |-> d.index] : p \in Begun(d.layer[l].lines)}
Save(d, l) ==
  IF d.layer[l].bupdate
  THEN [d EXCEPT !.cuts = @ \union FilesCut(d, l), !.file[l] = d.layer[l].lines, !.layer[l].bupdate = FALSE]
  ELSE d

\* total_size outlives the lines it counts.
Release(d, l) ==
  LET s == Save(d, l)
  IN  [PopLayer([s EXCEPT !.layer[l].lines = NoLines], l) EXCEPT !.layer[l].active = FALSE]

\* A bug: a layer that is being read is released.
Releasable_Any(d, l) == d.total >= MaxTotalSizeLayerData
Releasable(d, l) == d.total >= MaxTotalSizeLayerData /\ d.layer[l].refcount = 0
\* From the head, as long as there is too much.
Restruct(d) == FoldLeft(LAMBDA e, l : IF Releasable(e, l) THEN Release(e, l) ELSE e, d, d.list)

\* A bug: the total is not looked at.
Insert_Unbounded(d, l) == [d EXCEPT !.list = Append(@, l), !.total = @ + d.layer[l].size]
Insert(d, l) ==
  LET e == Restruct(d) IN [e EXCEPT !.list = Append(@, l), !.total = @ + e.layer[l].size]
Accessed(d, l) == IF d.layer[l].active THEN Insert(PopLayer(d, l), l) ELSE d

Load(d, l) ==
  Insert([d EXCEPT !.layer[l] = [@ EXCEPT !.lines = d.file[l], !.size = SizeOf(d.file[l]),
                                          !.bupdate = FALSE, !.active = TRUE]], l)

(* merge and reduce: the difference in size is added to the total.            *)
\* A bug: the total is not told.
Resized_Unsaid(d, l, lines) ==
  Accessed([d EXCEPT !.layer[l] = [@ EXCEPT !.lines = lines, !.size = SizeOf(lines), !.bupdate = TRUE]], l)
Resized(d, l, lines) ==
  Accessed([d EXCEPT !.layer[l] = [@ EXCEPT !.lines = lines, !.size = SizeOf(lines), !.bupdate = TRUE],
                     !.total = @ + SizeOf(lines) - d.layer[l].size], l)
Merge(d, l, lines) == Resized(d, l, [c \in Charts |-> Max({lines[c], d.layer[l].lines[c]})])
\* try_reduce() deletes the closed lines it leaves three points.
Reduce(d, l, gone) ==
  Resized(d, l, [c \in Charts |-> IF c \in gone THEN 0 ELSE Min({1, d.layer[l].lines[c]})])

(* Node                                                                       *)
Activated(d, l) ==
  IF ~d.node[l].hasLayer
  THEN Insert([d EXCEPT !.node[l].hasLayer = TRUE, !.layer[l] = [Inactive EXCEPT !.active = TRUE]], l)
  ELSE IF d.layer[l].active THEN d ELSE Load(d, l)

Locked(d, l, n) == [d EXCEPT !.layer[l].refcount = @ + n]
AddHere(d, l, lines) == Merge(Locked(Activated([d EXCEPT !.node[l].bupdate = TRUE], l), l, 1), l, lines)

\* split() hands a node below the lines that lie in it, if there are any.
Distribute(d, lines) ==
  FoldLeft(LAMBDA e, b : LET part == [c \in Charts |-> IF Place[c] = b THEN lines[c] ELSE 0]
                         IN  IF SizeOf(part) = 0 THEN e ELSE Locked(AddHere(e, b, part), b, -1),
           d, Below)
\* New nodes save an index without layers.
CreateDownLink(d) ==
  LET e == [d EXCEPT !.node = [l \in Layers |-> IF l = "up" THEN [@[l] EXCEPT !.bdownLink = TRUE]
                                                ELSE Updated(NewNode, FALSE)],
                     !.index = [l \in Layers |-> IF l = "up" THEN @[l] ELSE NewNode]]
  IN  Distribute(e, e.layer["up"].lines)

\* A bug: the layer is reduced before the nodes below have its lines.
Abstracted_First(d, gone) ==
  LET e == Reduce(d, "up", gone) IN IF e.node["up"].bdownLink THEN e ELSE CreateDownLink(e)
Abstracted(d, gone) == Reduce(IF d.node["up"].bdownLink THEN d ELSE CreateDownLink(d), "up", gone)

AddLayerData(d, lines, gone) ==
  LET below == IF d.node["up"].bdownLink THEN Distribute(d, lines) ELSE d
      here == AddHere(below, "up", lines)
  IN  Locked(IF here.layer["up"].size > MaxSizeLayerData THEN Abstracted(here, gone) ELSE here, "up", -1)

GetLayerData(d, l) == IF d.node[l].hasLayer THEN Accessed(Activated(d, l), l) ELSE d
\* A pointer is pushed to the list of the caller by way of a temporary one.
Handed(d, l) == IF d.node[l].hasLayer THEN Accessed(Locked(GetLayerData(d, l), l, 1), l) ELSE d

\* The nodes of met are read, and the list of what was found is given up; for a
\* finer resolution the caller has it.
Read(d, met) == FoldLeft(LAMBDA e, b : IF b \in met THEN Handed(e, b) ELSE e, d, Below)
GivenUp(d, met, fine) ==
  FoldLeft(LAMBDA e, b : IF b \in met THEN Locked(Accessed(e, b), b, IF fine THEN 0 ELSE -1) ELSE e, d, Below)

\* The index first, which ends with the layers; then the layer.
IndexOf(n) == [hasLayer |-> n.hasLayer, bdownLink |-> n.bdownLink]
IndicesBegun(n) == {IndexOf(n)} \union [hasLayer : {FALSE}, bdownLink : {FALSE, n.bdownLink}]
IndexWritten(d, l) ==
  [d EXCEPT !.cuts = @ \union {[file |-> d.file, index |-> [d.index EXCEPT ![l] = i]] : i \in IndicesBegun(d.node[l])},
            !.index[l] = IndexOf(d.node[l])]
NodeSave(d, l) ==
  IF d.node[l].bupdate THEN [Save(IndexWritten(d, l), l) EXCEPT !.node[l].bupdate = FALSE] ELSE d
Saved(d, down) == FoldLeft(LAMBDA e, b : IF down THEN NodeSave(e, b) ELSE e, d, Below)
-------------------------------------------------------------------------------
(* MapDataBase                                                                *)
Becomes(d) ==
  /\ list' = d.list /\ layer' = d.layer /\ totalSize' = d.total
  /\ file' = d.file /\ node' = d.node /\ mapIndex' = d.index

(* The next process reads the indices, those below if they are linked: else   *)
(* the nodes below are made anew.                                             *)
Linked(index) == [l \in Layers |-> IF l = "up" \/ index["up"].bdownLink THEN index[l] ELSE NewNode]
Restart(disk) ==
  /\ list' = <<>> /\ totalSize' = 0 /\ layer' = [l \in Layers |-> Inactive]
  /\ file' = disk.file /\ mapIndex' = Linked(disk.index)
  /\ node' = [l \in Layers |-> Updated(mapIndex'[l], FALSE)]
  /\ saves < MaxSaves /\ saves' = saves + 1

Crash ==
  /\ Restart([file |-> file, index |-> mapIndex])
  /\ inserted' = inserted \intersect saved /\ UNCHANGED <<saved, inserts>>

(* Within the call that makes d: what the upper node has saved is as it was,  *)
(* or there is no telling.                                                    *)
CrashWithin(d) == \E disk \in d.cuts :
  /\ Restart(disk) /\ inserted' = {}
  /\ saved' = IF disk.file["up"] = file["up"] /\ disk.index["up"] = mapIndex["up"] THEN saved ELSE {}

Call(d) ==
  /\ UNCHANGED inserts
  /\ \/ Becomes(d) /\ UNCHANGED <<inserted, saved, saves>>
     \/ CrashWithin(d)

\* Inserted once more after a crash, a line is to be saved once more.
insert(c, gone) ==
  LET d == AddLayerData(db, [NoLines EXCEPT ![c] = 2], gone)
  IN  /\ inserts < MaxInserts /\ inserts' = inserts + 1
      /\ \/ /\ Becomes(d) /\ inserted' = inserted \union {c} /\ saved' = saved \ {c} /\ UNCHANGED saves
         \/ CrashWithin(d)

(* The layer of the node, or for a finer resolution those of the nodes below  *)
(* that meet the region; these are read in either case, and the list of what  *)
(* was found below is given up at the end.                                    *)
request(fine, region) ==
  LET down == node["up"].bdownLink
      here == IF fine /\ down THEN GetLayerData(db, "up") ELSE Handed(db, "up")
      met == {b \in region : down /\ node[b].hasLayer}
  IN  Call(GivenUp(Read(here, met), met, fine))

\* The destructor of LayerDataPtr.
DropPtr(l) == layer[l].refcount > 0 /\ Call(Locked(Accessed(db, l), l, -1))

restruct == Call(Restruct(db))

\* A node that is not updated does not ask the nodes below.
save ==
  LET d == IF node["up"].bupdate THEN Saved(NodeSave(db, "up"), node["up"].bdownLink) ELSE db
  IN  /\ UNCHANGED inserts
      /\ \/ /\ saves < MaxSaves /\ saves' = saves + 1
            /\ Becomes(d) /\ saved' = inserted \union saved /\ UNCHANGED inserted
         \/ CrashWithin(d)

Pointers == SumFunctionOnSet([l \in Layers |-> layer[l].refcount], Layers)
MapNext ==
  \/ \E c \in Charts \ inserted, gone \in SUBSET Closed : insert(c, gone)
  \/ Pointers < MaxPtrs /\ \E fine \in BOOLEAN, region \in SUBSET Range(Below) :
       Cardinality(region) + Pointers <= MaxPtrs /\ request(fine, region)
  \/ \E l \in Layers : DropPtr(l)
  \/ restruct \/ save \/ Crash

MapSpec == MapInit /\ [][MapNext]_mapVars
-------------------------------------------------------------------------------
(* The layers on the list are those in memory, and the total is their size.   *)
TotalIsSum ==
  /\ Range(list) = {l \in Layers : layer[l].active} /\ IsInjective(list)
  /\ totalSize = SumFunctionOnSet([l \in Layers |-> SizeOf(layer[l].lines)], Range(list))

(* A reader's layer stays in memory, whatever is read or merged meanwhile.    *)
ReadIsInMemory == \A l \in Layers : layer[l].refcount > 0 => layer[l].active

(* Without its newest layer the cache is within its limit, unless readers     *)
(* hold all the others.                                                       *)
CacheBounded ==
  list # <<>> =>
    \/ totalSize - layer[list[Len(list)]].size < MaxTotalSizeLayerData
    \/ \A i \in 1..(Len(list) - 1) : layer[list[i]].refcount > 0

(* All points of a line inserted are in a layer, in memory or on file, however *)
(* layers are reduced, released and read again: only a crash may lose them.    *)
Lines(l) == IF layer[l].active THEN layer[l].lines ELSE file[l]
InFull(c) == \E l \in Layers : /\ node[l].hasLayer /\ (l # "up" => node["up"].bdownLink)
                              /\ Lines(l)[c] = 2
DetailKept == [][Crash \/ \A c \in inserted' : (c \in inserted => InFull(c)) => InFull(c)']_mapVars

(* What was saved is found again, if with fewer points, whatever was released *)
(* since and whenever the process ends, but for closed lines and for what a   *)
(* crash finds it writing over.                                               *)
SavedIsFound == \A c \in saved : mapIndex["up"].hasLayer /\ (c \in Closed \/ file["up"][c] > 0)

(* Lines inserted or saved stay in the map, and the cache within its limit,   *)
(* while layers are reduced, released and read again.                         *)
LinesAreKept == [](TotalIsSum /\ ReadIsInMemory /\ CacheBounded /\ SavedIsFound) /\ DetailKept
=============================================================================
