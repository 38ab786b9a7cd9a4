----------------------------- MODULE BundleFile -----------------------------
(***************************************************************************)
(* Saving and loading condition bundles (src/src/condition.cpp:394-752).   *)
(* Processes save bundles under one path: they write path + ".part",       *)
(* flush it and rename it over path.  Others load path while that happens. *)
(* The stream hands over its bytes at the latest where the code tests it,  *)
(* so a write is one block of BundleFormat; a process may die between two  *)
(* blocks and any write may fail.  Nothing keeps two savers of one path    *)
(* apart: they share the temporary file.                                   *)
(***************************************************************************)
EXTENDS BundleFormat

CONSTANTS Savers, Readers,  \* processes that save to and load from the path
          Bundles,          \* what they may be asked to save, valid or not
          NoBundle,
          MaxFiles,         \* bound: files (inodes) ever created
          MaxSaves          \* bound: saves ever begun

\* The words of each bundle, and the lengths at which its blocks end.
Image == [b \in Bundles |-> Encoding(b)]
Ends  == [b \in Bundles |-> {Len(FlattenSeq(SubSeq(Blocks(b), 1, k))) :
                                k \in DOMAIN Blocks(b)}]

AllWords == {U(0)} \cup UNION {{Image[b][i] : i \in DOMAIN Image[b]} : b \in Bundles}

ASSUME FilesAssumption ==
    /\ MaxFiles \in Nat /\ MaxSaves \in Nat
    /\ Bundles \subseteq Bundle
    /\ NoBundle \notin Bundles

VARIABLES files,   \* the content of every file ever created
          dir,     \* the file each of the two names stands for, 0 when none
          savers,  \* state of the savers
          readers, \* state of the readers
          holds,   \* ghost: the bundle each file was published for
          torn,    \* ghost: files two active savers may both have touched
          begun    \* saves begun, for the bound

vars == <<files, dir, savers, readers, holds, torn, begun>>

IdleSaver  == [pc |-> "idle", b |-> NoBundle, file |-> 0, at |-> 0]
IdleReader == [pc |-> "idle", file |-> 0, pos |-> 0, mv |-> FALSE, stages |-> 0,
               views |-> 0, maps |-> 0, have |-> {}, view |-> <<>>,
               stage |-> <<>>, out |-> <<>>]

Init ==
    /\ files = <<>>
    /\ dir = [path |-> 0, part |-> 0]
    /\ savers = [s \in Savers |-> IdleSaver]
    /\ readers = [r \in Readers |-> IdleReader]
    /\ holds = <<>>
    /\ torn = {}
    /\ begun = 0

Active == {s \in Savers : savers[s].pc # "idle"}

\* The content c after the words e[k + 1..m] were written at offset k: what
\* another saver truncated away meanwhile reads as zero.
Overwritten(c, k, e, m) ==
    [i \in 1..(IF Len(c) > m THEN Len(c) ELSE m) |->
        IF i \in k + 1 .. m THEN e[i]
        ELSE IF i <= Len(c) THEN c[i] ELSE U(0)]

-----------------------------------------------------------------------------
(* save_pixal3d_condition_bundle, save_pixal3d_multiview_condition_bundle  *)

\* A file opened with std::ios::trunc, and opened without.
Fault_OpenedOver(c) == c
Opened(c) == <<>>

\* Opens path + ".part", truncating what is there.  An invalid bundle is
\* refused before that, and the open itself may fail: nothing changes then.
SaveBegin(s, b) ==
    /\ savers[s].pc = "idle"
    /\ begun < MaxSaves /\ begun' = begun + 1
    /\ Valid(b)
    /\ IF dir.part # 0
       THEN /\ files' = [files EXCEPT ![dir.part] = Opened(@)]
            /\ UNCHANGED <<dir, holds>>
       ELSE /\ Len(files) < MaxFiles
            /\ files' = Append(files, <<>>)
            /\ holds' = Append(holds, NoBundle)
            /\ dir' = [dir EXCEPT !.part = Len(files) + 1]
    /\ savers' = [savers EXCEPT ![s] = [pc |-> "writing", b |-> b,
                                        file |-> dir'.part, at |-> 0]]
    /\ torn' = IF Active = {} THEN torn
               ELSE torn \cup {dir'.part} \cup {savers[a].file : a \in Active}
    /\ UNCHANGED readers

\* The next block starts with a stage whose name is too long to be read back.
Fault_AnyLength(b, at) == FALSE
NameTooLong(b, at) == Image[b][at + 1][1] = "u" /\ Image[b][at + 1][2] > MaxName

WriteBlock(s) ==
    LET w == savers[s] IN
    /\ w.pc = "writing"
    /\ \E m \in Ends[w.b] :
          /\ m > w.at
          /\ \A n \in Ends[w.b] : n > w.at => m <= n
          /\ ~NameTooLong(w.b, w.at)
          /\ files' = [files EXCEPT ![w.file] = Overwritten(@, w.at, Image[w.b], m)]
          /\ savers' = [savers EXCEPT ![s].at = m]
    /\ UNCHANGED <<dir, readers, holds, torn, begun>>

\* The lambda fail: whatever .part now stands for is removed.
SaveFails(s) ==
    /\ savers[s].pc = "writing"
    /\ dir' = [dir EXCEPT !.part = 0]
    /\ savers' = [savers EXCEPT ![s] = IdleSaver]
    /\ UNCHANGED <<files, readers, holds, torn, begun>>

FlushAndClose(s) ==
    /\ savers[s].pc = "writing"
    /\ savers[s].at = Len(Image[savers[s].b])
    /\ savers' = [savers EXCEPT ![s].pc = "closed"]
    /\ UNCHANGED <<files, dir, readers, holds, torn, begun>>

\* std::rename publishes what .part stands for, whoever wrote it.
Rename(s) ==
    /\ savers[s].pc = "closed"
    /\ dir.part # 0
    /\ dir' = [path |-> dir.part, part |-> 0]
    /\ holds' = [holds EXCEPT ![dir.part] = savers[s].b]
    /\ savers' = [savers EXCEPT ![s] = IdleSaver]
    /\ UNCHANGED <<files, readers, torn, begun>>

\* It fails when .part is gone, and for reasons of the system.
RenameFails(s) ==
    /\ savers[s].pc = "closed"
    /\ dir' = [dir EXCEPT !.part = 0]
    /\ savers' = [savers EXCEPT ![s] = IdleSaver]
    /\ UNCHANGED <<files, readers, holds, torn, begun>>

\* The process dies: nothing removes its temporary file.
Crash(s) ==
    /\ savers[s].pc # "idle"
    /\ savers' = [savers EXCEPT ![s] = IdleSaver]
    /\ UNCHANGED <<files, dir, readers, holds, torn, begun>>

\* The path receives a shortened or lengthened copy of a bundle (a copy that
\* stopped, a file joined with another).
Damage ==
    /\ dir.path # 0 /\ holds[dir.path] # NoBundle
    /\ Len(files) < MaxFiles
    /\ LET c == files[dir.path] IN
       \E d \in {SubSeq(c, 1, k) : k \in 0..Len(c) - 1} \cup {Append(c, U(0))} :
          files' = Append(files, d)
    /\ holds' = Append(holds, NoBundle)
    /\ dir' = [dir EXCEPT !.path = Len(files) + 1]
    /\ torn' = IF dir.path \in torn THEN torn \cup {Len(files) + 1} ELSE torn
    /\ UNCHANGED <<savers, readers, begun>>

-----------------------------------------------------------------------------
(* load_pixal3d_condition_bundle, load_pixal3d_multiview_condition_bundle.  *)
(* mv says which of the two was called.                                    *)

Words(r)     == files[readers[r].file]
WordAt(r, n) == Words(r)[readers[r].pos + n]
IntAt(r, n)  == AsInt(WordAt(r, n))
Has(r, n)    == Len(Words(r)) >= readers[r].pos + n

\* Every early return of a load leaves what was read so far in the output,
\* which its callers drop.
Refuse(r) ==
    readers' = [readers EXCEPT ![r] = [IdleReader EXCEPT !.pc = "refused",
                                           !.file = readers[r].file, !.mv = readers[r].mv]]
Goes(r, state) == readers' = [readers EXCEPT ![r] = state]

LoadBegin(r, mv) ==
    /\ readers[r].pc = "idle"
    /\ IF dir.path = 0 THEN Refuse(r)
       ELSE Goes(r, [IdleReader EXCEPT !.pc = "head", !.file = dir.path, !.mv = mv])

\* Magic, version and the number of stages.
ReadHead(r) ==
    LET rd == readers[r] IN
    /\ rd.pc = "head"
    /\ IF /\ Has(r, 3)
          /\ WordAt(r, 1) = Magic(rd.mv)
          /\ IntAt(r, 2) = Version
          /\ IntAt(r, 3) \in 1..MaxStages
       THEN Goes(r, [rd EXCEPT !.pc = "stage", !.pos = 3, !.stages = IntAt(r, 3)])
       ELSE Refuse(r)

\* The name of a stage and, in a multi-view bundle, its number of views.
ReadStage(r) ==
    LET rd == readers[r]
        n  == IF rd.mv THEN 3 ELSE 2
    IN
    /\ rd.pc = "stage"
    /\ IF Has(r, n) /\ IntAt(r, 1) \in 1..MaxName /\ (rd.mv => IntAt(r, 3) \in 1..MaxViews)
       THEN Goes(r, [rd EXCEPT !.pc = IF rd.mv THEN "camera" ELSE "view",
                               !.pos = @ + n,
                               !.views = IF rd.mv THEN IntAt(r, 3) ELSE 1,
                               !.stage = [len |-> IntAt(r, 1), name |-> WordAt(r, 2),
                                          views |-> <<>>]])
       ELSE Refuse(r)

ReadCamera(r) ==
    LET rd == readers[r] IN
    /\ rd.pc = "camera"
    /\ IF Has(r, 3) /\ IntAt(r, 3) = 1
       THEN Goes(r, [rd EXCEPT !.pc = "view", !.pos = @ + 3,
                               !.view = [pose |-> WordAt(r, 1), scale |-> WordAt(r, 2),
                                         has |-> 1]])
       ELSE Refuse(r)

\* A payload of n words at distance k: the file is long enough now, and all
\* of it is finite.
Payload(r, k, n) ==
    SubSeq(Words(r), readers[r].pos + k + 1, readers[r].pos + k + n)
PayloadReadable(r, k, n) ==
    /\ Has(r, k + n)
    /\ \A i \in 1..n : IsFinite(WordAt(r, k + i))

\* Tokens, channels, number of maps and the global tensor.
ReadGlobal(r) ==
    LET rd == readers[r]
        n  == IntAt(r, 1) * IntAt(r, 2)
    IN
    /\ rd.pc = "view"
    /\ IF /\ Has(r, 3)
          /\ IntAt(r, 1) > 0 /\ IntAt(r, 2) > 0 /\ IntAt(r, 3) \in {1, 2}
          /\ PayloadReadable(r, 3, n)
       THEN Goes(r, [rd EXCEPT !.pc = "map", !.pos = @ + 3 + n,
                               !.maps = IntAt(r, 3), !.have = {},
                               !.view = [cam |-> IF rd.mv THEN rd.view ELSE NoCamera,
                                         tokens |-> IntAt(r, 1), c |-> IntAt(r, 2),
                                         feats |-> Payload(r, 3, n),
                                         dino |-> NoMap, naf |-> NoMap]])
       ELSE Refuse(r)

\* A role, the dimensions and the features of a map; no role twice.
ReadMap(r) ==
    LET rd == readers[r]
        n  == IntAt(r, 3) * IntAt(r, 4) * IntAt(r, 5)
        m  == [res |-> IntAt(r, 2), h |-> IntAt(r, 3), w |-> IntAt(r, 4), c |-> IntAt(r, 5),
               feats |-> Payload(r, 5, n)]
    IN
    /\ rd.pc = "map" /\ rd.maps > 0
    /\ IF /\ Has(r, 5)
          /\ IntAt(r, 1) \in {DinoMap, NafMap} \ rd.have
          /\ \A i \in 2..5 : IntAt(r, i) > 0
          /\ PayloadReadable(r, 5, n)
       THEN Goes(r, [rd EXCEPT !.pos = @ + 5 + n, !.maps = @ - 1,
                               !.have = @ \cup {IntAt(r, 1)},
                               !.view = IF IntAt(r, 1) = DinoMap
                                        THEN [@ EXCEPT !.dino = m]
                                        ELSE [@ EXCEPT !.naf = m]])
       ELSE Refuse(r)

\* The end of a view, and of its stage when it was the last one.
EndView(r) ==
    LET rd   == readers[r]
        st   == [rd.stage EXCEPT !.views = Append(@, rd.view)]
        last == rd.views = 1
    IN
    /\ rd.pc = "map" /\ rd.maps = 0
    /\ IF /\ DinoMap \in rd.have
          /\ IF rd.mv THEN ViewValid(rd.view) /\ (last => StageMVValid(st))
                      ELSE StageValid(st)
       THEN Goes(r, [rd EXCEPT
               !.views = @ - 1, !.view = <<>>,
               !.stage = IF last THEN <<>> ELSE st,
               !.stages = IF last THEN @ - 1 ELSE @,
               !.out = IF last THEN Append(@, st) ELSE @,
               !.pc = IF ~last THEN "camera" ELSE IF rd.stages > 1 THEN "stage" ELSE "end"])
       ELSE Refuse(r)

Fault_EndUnchecked(r) == TRUE
AtEnd(r) == ~Has(r, 1)

\* Nothing may follow the last stage, and the whole must be a valid bundle.
LoadEnd(r) ==
    LET rd == readers[r]
        b  == [mv |-> rd.mv, stages |-> rd.out]
    IN
    /\ rd.pc = "end"
    /\ IF AtEnd(r) /\ Valid(b)
       THEN Goes(r, [rd EXCEPT !.pc = "loaded", !.out = b])
       ELSE Refuse(r)

\* The caller goes on with the bundle, or reports the error.
LoadReturn(r) ==
    /\ readers[r].pc \in {"loaded", "refused"}
    /\ Goes(r, IdleReader)

Load(r) ==
    /\ \/ \E mv \in BOOLEAN : LoadBegin(r, mv)
       \/ ReadHead(r) \/ ReadStage(r) \/ ReadCamera(r) \/ ReadGlobal(r)
       \/ ReadMap(r) \/ EndView(r) \/ LoadEnd(r) \/ LoadReturn(r)
    /\ UNCHANGED <<files, dir, savers, holds, torn, begun>>

Save(s) ==
    \/ \E b \in Bundles : SaveBegin(s, b)
    \/ WriteBlock(s) \/ SaveFails(s) \/ FlushAndClose(s)
    \/ Rename(s) \/ RenameFails(s) \/ Crash(s)

Next ==
    \/ \E s \in Savers : Save(s)
    \/ \E r \in Readers : Load(r)
    \/ Damage

Spec == Init /\ [][Next]_vars

-----------------------------------------------------------------------------
\* Every variable holds a value of its kind.
TypeOK ==
    /\ files \in Seq(Seq(AllWords))
    /\ holds \in Seq(Bundles \cup {NoBundle}) /\ Len(holds) = Len(files)
    /\ dir \in [path : 0..Len(files), part : 0..Len(files)]
    /\ savers \in [Savers -> [pc : {"idle", "writing", "closed"},
                              b : Bundles \cup {NoBundle},
                              file : 0..Len(files), at : Nat]]
    /\ torn \subseteq 1..Len(files)
    /\ begun \in 0..MaxSaves

\* Whatever fails or dies, and whatever temporary file was left behind, the
\* path stands for the whole of the bundle it was last published for, unless
\* two savers were active together: the promise of the rename protocol.
PublishedIsWhole ==
    \A f \in 1..Len(files) :
        f \notin torn /\ holds[f] # NoBundle => files[f] = Image[holds[f]]

\* A load hands out the bundle its file was published for, while the path is
\* replaced under it: never a mixture, a part or a damaged copy of one.
LoadedIsWhole ==
    \A r \in Readers :
        readers[r].pc = "loaded" /\ readers[r].file \notin torn =>
            readers[r].out = holds[readers[r].file]

\* What a save accepts a load of the same format accepts: the limits of the
\* two sides agree, and no replacement of the path makes a load fail.
SavedIsLoadable ==
    \A r \in Readers :
        LET rd == readers[r] IN
        rd.pc = "refused" /\ rd.file \notin torn \cup {0} /\ holds[rd.file] # NoBundle =>
            rd.mv # holds[rd.file].mv

\* Saving and loading agree: what was saved loads, and loads as it was saved.
LoadsAsSaved == LoadedIsWhole /\ SavedIsLoadable
=============================================================================
