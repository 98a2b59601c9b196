---------------------------- MODULE SlidePlaylist ----------------------------
(***************************************************************************)
(* The slideshow's conductor (internal/slideshow/conductor.go): what is on *)
(* the screen, what comes next, and what a new scan of the image folders   *)
(* does to both.  Every action is one critical section of Conductor.mu.    *)
(*                                                                         *)
(* An image is a pair of naturals, its subject and its place there, in the *)
(* order of their names.  Positions count from 1.                          *)
(***************************************************************************)
EXTENDS SequencesExt, FiniteSetsExt, Naturals

CONSTANTS
    Image,          \* every image there may be
    NoImage,        \* nothing to show
    MaxControls,    \* bound: controls
    MaxScans        \* bound: scans that change the rotation

ASSUME PlaylistAssumption ==
    /\ Image \subseteq Nat \X Nat /\ IsFiniteSet(Image)
    /\ NoImage \notin Image
    /\ MaxControls \in Nat /\ MaxScans \in Nat

VARIABLES
    subjects,       \* the rotation: of each subject, its images
    playlist,       \* the subjects' indices in playing order
    playPos,        \* where in the playlist
    index,          \* which image of the subject
    image,          \* state.ImagePath
    playing, shuffle,
    controls, scans,
    pass            \* history: the pass through the playlist under way

placeVars == <<subjects, playlist, playPos, index, image>>
vars == <<placeVars, playing, shuffle, controls, scans, pass>>

\* os.ReadDir lists by name: in its k-th place the one that k - 1 others come before.
InOrder(S) ==
    [k \in 1..Cardinality(S) |-> CHOOSE x \in S : Cardinality({y \in S : y < x}) = k - 1]

\* SubjectsWithin: the subjects that have an image in the rotation.
SubjectsOf(images) ==
    LET names == InOrder({im[1] : im \in images})
    IN [k \in DOMAIN names |->
           LET n == InOrder({im[2] : im \in {i \in images : i[1] = names[k]}})
           IN [j \in DOMAIN n |-> <<names[k], n[j]>>]]

Rotation(subs) == UNION {Range(subs[k]) : k \in DOMAIN subs}

Entries == subjects[playlist[playPos]]

\* The orders a rebuilt or reshuffled playlist of n subjects may have.
Orders(n) == IF shuffle' THEN SetToSeqs(1..n) ELSE {[k \in 1..n |-> k]}

-----------------------------------------------------------------------------
\* Mutant: the place moves, the image it names is not looked up.
ShowUnsynced(subs, list, pos, i) ==
    /\ subjects' = subs /\ playlist' = list /\ playPos' = pos
    /\ index' = IF list = <<>> \/ i > Len(subs[list[pos]]) THEN 1 ELSE i
    /\ image' = image

\* syncStateFromPosition, for a playlist and a place in it.
Show(subs, list, pos, i) ==
    /\ subjects' = subs /\ playlist' = list /\ playPos' = pos
    /\ LET entries == IF list = <<>> THEN <<NoImage>> ELSE subs[list[pos]]
           at == IF i > Len(entries) THEN 1 ELSE i
       IN index' = at /\ image' = entries[at]

\* rebuildPlaylist.
Rebuild == \E order \in Orders(Len(subjects)) : Show(subjects, order, 1, 1)

\* The playlist is at its end: the next advance starts another pass.
AtEnd == playPos = Len(playlist) /\ index = Len(Entries)

\* Mutant: a subject starts over instead of giving way to the next.
ForwardWithin == Show(subjects, playlist, playPos, index + 1)

Forward ==
    CASE index < Len(Entries) -> Show(subjects, playlist, playPos, index + 1)
      [] index = Len(Entries) /\ playPos < Len(playlist) -> Show(subjects, playlist, playPos + 1, 1)
      [] AtEnd /\ shuffle -> \E order \in Orders(Len(playlist)) : Show(subjects, order, 1, 1)
      [] AtEnd /\ ~shuffle -> Show(subjects, playlist, 1, 1)

Before(pos) == IF pos = 1 THEN Len(playlist) ELSE pos - 1
After(pos) == IF pos = Len(playlist) THEN 1 ELSE pos + 1

Backward ==
    IF index > 1 THEN Show(subjects, playlist, playPos, index - 1)
    ELSE Show(subjects, playlist, Before(playPos), Len(subjects[playlist[Before(playPos)]]))

Here(subs, list) == {p \in DOMAIN list : image # NoImage /\ subs[list[p]][1][1] = image[1]}

\* Mutant: a subject whose image is gone gives way to the next one.
RefreshPast(images) ==
    LET subs == SubjectsOf(images)
    IN \E order \in Orders(Len(subs)) :
          IF Here(subs, order) = {} THEN Show(subs, order, 1, 1)
          ELSE LET p == Min(Here(subs, order))
                   at == {j \in DOMAIN subs[order[p]] : subs[order[p]][j] = image}
               IN IF at = {} THEN Show(subs, order, IF p = Len(order) THEN 1 ELSE p + 1, 1)
                  ELSE Show(subs, order, p, Min(at))

\* Mutant: the playlist starts over.
RefreshFromTop(images) ==
    LET subs == SubjectsOf(images)
    IN \E order \in Orders(Len(subs)) : Show(subs, order, 1, 1)

\* refreshSubjectsLocked: back to the subject on show, if it is still there,
\* and to its image.
Refresh(images) ==
    LET subs == SubjectsOf(images)
        place(entries) == {j \in DOMAIN entries : entries[j] = image}
    IN \E order \in Orders(Len(subs)) :
          IF Here(subs, order) = {} THEN Show(subs, order, 1, 1)
          ELSE LET p == Min(Here(subs, order))
                   at == place(subs[order[p]])
               IN Show(subs, order, p, IF at = {} THEN 1 ELSE Min(at))

-----------------------------------------------------------------------------
\* History.  A pass is whole until somebody jumps in it; seen are the images it
\* has shown, stayed those that were in the rotation all along.

NewPass == pass' = [whole |-> TRUE, seen |-> {image'}, stayed |-> Rotation(subjects')]
SamePass(whole) == pass' = [whole |-> whole, seen |-> pass.seen \cup {image'},
                            stayed |-> pass.stayed \cap Rotation(subjects')]

Empty == subjects = <<>>
Settings == <<playing, shuffle>>

\* advance, from the ticker and from "next".
Advance ==
    IF Empty THEN UNCHANGED <<placeVars, pass>>
    ELSE Forward /\ IF AtEnd THEN NewPass ELSE SamePass(pass.whole)

\* Run: the ticker fires.
Tick ==
    /\ playing /\ ~Empty
    /\ UNCHANGED <<Settings, controls, scans>>
    /\ Advance

\* Run's hourly scan, and ApplyControl's set-max-age.
Rescan(images) ==
    /\ scans < MaxScans
    /\ scans' = scans + 1
    /\ UNCHANGED <<Settings, controls>>
    /\ Refresh(images)
    /\ SamePass(pass.whole /\ ~shuffle)

Control == controls < MaxControls /\ controls' = controls + 1 /\ UNCHANGED scans

PlayPause(b) ==
    /\ Control
    /\ playing' = b
    /\ UNCHANGED <<placeVars, shuffle, pass>>

SkipAhead ==
    /\ Control
    /\ UNCHANGED Settings
    /\ Advance

Jump(move) ==
    /\ ~Empty
    /\ Control
    /\ UNCHANGED Settings
    /\ move
    /\ SamePass(FALSE)

Prev == Jump(Backward)
NextSubject == Jump(Show(subjects, playlist, After(playPos), 1))
PrevSubject == Jump(Show(subjects, playlist, Before(playPos), 1))

SetShuffle ==
    /\ Control
    /\ shuffle' \in BOOLEAN /\ UNCHANGED playing
    /\ Rebuild
    /\ NewPass

-----------------------------------------------------------------------------
\* NewConductor.
Init ==
    /\ shuffle \in BOOLEAN /\ playing = FALSE
    /\ subjects \in {SubjectsOf(S) : S \in SUBSET Image}
    /\ playlist \in IF shuffle THEN SetToSeqs(1..Len(subjects)) ELSE {[k \in 1..Len(subjects) |-> k]}
    /\ playPos = 1 /\ index = 1
    /\ image = IF subjects = <<>> THEN NoImage ELSE subjects[playlist[1]][1]
    /\ controls = 0 /\ scans = 0
    /\ pass = [whole |-> TRUE, seen |-> {image}, stayed |-> Rotation(subjects)]

Next ==
    \/ Tick
    \/ \E images \in SUBSET Image : Rescan(images)
    \/ \E b \in BOOLEAN : PlayPause(b)
    \/ SkipAhead \/ Prev \/ NextSubject \/ PrevSubject \/ SetShuffle

Spec == Init /\ [][Next]_vars
FairSpec == Spec /\ WF_vars(Tick)

-----------------------------------------------------------------------------
\* Properties.

\* The playlist is an order of the rotation, and what is on show is the image at
\* the place the conductor keeps (syncStateFromPosition).
TypeOK ==
    /\ playing \in BOOLEAN /\ shuffle \in BOOLEAN
    /\ subjects \in Seq(Seq(Image)) /\ Rotation(subjects) \subseteq Image
    /\ playlist \in SetToSeqs(1..Len(subjects))
    /\ ~Empty => playPos \in DOMAIN playlist /\ index \in DOMAIN Entries
    /\ image = IF Empty THEN NoImage ELSE Entries[index]

\* A pass through the playlist that nobody jumped in leaves nothing out: at its
\* end every image that was in the rotation from its start has been on show,
\* whatever rescans took away from or added to it (advance and
\* refreshSubjectsLocked, conductor.go).
NothingSkipped == ~Empty /\ AtEnd /\ pass.whole => pass.stayed \subseteq pass.seen

\* "staying on the current subject and image when they're still in rotation"
\* (refreshSubjectsLocked, conductor.go): a rescan that still finds the image on
\* show leaves it there, in whatever order the playlist is rebuilt.
StaysPut == [][scans' # scans /\ image \in Rotation(subjects') => image' = image]_vars

\* While the show plays, every image that stays in the rotation comes up again
\* and again, shuffled or not, once the scans are over (MaxScans).  Where they go
\* on for ever, each may shuffle what is ahead, and an image's turn is no more
\* than probable.
EveryImageComesUp ==
    \A im \in Image : <>[](playing /\ im \in Rotation(subjects)) => []<>(image = im)
=============================================================================
