----------------------------- MODULE Snapshots -----------------------------
(***************************************************************************)
(* A terminal's screen on its way to the client (terminal_backend.rs       *)
(* 81-170, terminal_model.rs): the semantic snapshot with its table of      *)
(* hyperlinks, the rows of runs a full frame is sent as, and the patch a    *)
(* diff consists of.  FrameSync takes for granted that a frame brings the   *)
(* client the snapshot it was made of; this module is about how it does.    *)
(*                                                                         *)
(* A screen's cells are one sequence, row after row.  A face stands for the *)
(* colours and attributes of a cell, a width for its two flags.             *)
(***************************************************************************)
EXTENDS Naturals, Sequences, FiniteSets, SequencesExt

CONSTANTS Sizes,    \* sizes of the terminal, as <<rows, columns>>
          Drawn,    \* the cells a harness draws: [text, face, width, uri]
          None      \* Option::None of a link; a refused patch or wire format

SnapshotsAssumption == Sizes \subseteq Nat \X Nat

VARIABLES size, screen, wraps,  \* the emulator's screen
          sent,                 \* the snapshot of the last frame
          copy                  \* the client's: CachedTerminal.snapshot

vars == <<size, screen, wraps, sent, copy>>

Empty == [kind |-> "empty", text |-> ""]
Blank == [text |-> Empty, face |-> "default", width |-> "narrow", uri |-> None]

(* The n-th number of a set. *)
Nth(set, n) == CHOOSE i \in set : Cardinality({j \in set : j <= i}) = n

(* The elements of a sequence at these positions, in the order of their     *)
(* first occurrences.                                                       *)
FirstSeen(s, at) ==
  LET first == {i \in at : \A j \in at : s[j] = s[i] => i <= j}
  IN [n \in 1..Cardinality(first) |-> s[Nth(first, n)]]
IndexIn(s, x) == CHOOSE i \in DOMAIN s : s[i] = x

-----------------------------------------------------------------------------
(* semantic_snapshot: cells name their link by its place in the table. *)

Snapshot ==
  LET links == FirstSeen([i \in DOMAIN screen |-> screen[i].uri],
                         {i \in DOMAIN screen : screen[i].uri # None})
  IN [size |-> size, wraps |-> wraps, links |-> links,
      cells |-> [i \in DOMAIN screen |->
        [text |-> screen[i].text, width |-> screen[i].width,
         style |-> [face |-> screen[i].face,
                    link |-> IF screen[i].uri = None THEN 0 ELSE IndexIn(links, screen[i].uri)]]]]

BlankSnapshot(s) ==
  [size |-> s, wraps |-> [r \in 1..s[1] |-> FALSE], links |-> <<>>,
   cells |-> [i \in 1..(s[1] * s[2]) |->
     [text |-> Empty, width |-> "narrow", style |-> [face |-> "default", link |-> 0]]]]

LinkIsValid(cell, links) == cell.style.link \in {0} \cup DOMAIN links

Valid(s) ==
  /\ Len(s.cells) = s.size[1] * s.size[2] /\ Len(s.wraps) = s.size[1]
  /\ \A i \in DOMAIN s.cells : LinkIsValid(s.cells[i], s.links)

-----------------------------------------------------------------------------
(* The wire format of a full frame *)

DefaultStyle == [face |-> "default", link |-> 0]
Row(s, r) == [c \in 1..s.size[2] |-> s.cells[(r - 1) * s.size[2] + c]]

(* What the cells of one run have in common. *)
Common(cell) == <<cell.text.kind, cell.style, cell.width>>

Runs(row, styles) ==
  LET starts == {c \in DOMAIN row : c = 1 \/ Common(row[c]) # Common(row[c - 1])}
      end(n) == IF n = Cardinality(starts) THEN Len(row) ELSE Nth(starts, n + 1) - 1
      Run(start, last) ==
        [style |-> IndexIn(styles, row[start].style), width |-> row[start].width,
         texts |-> [k \in 1..(last - start + 1) |-> row[start + k - 1].text]]
  IN [n \in 1..Cardinality(starts) |-> Run(Nth(starts, n), end(n))]

(* The default style is the first. *)
Encode(s) ==
  LET all == [i \in 0..Len(s.cells) |-> IF i = 0 THEN DefaultStyle ELSE s.cells[i].style]
      styles == FirstSeen(all, DOMAIN all)
  IN [size |-> s.size, links |-> s.links, wraps |-> s.wraps, styles |-> styles,
      rows |-> [r \in 1..s.size[1] |-> Runs(Row(s, r), styles)]]

Expanded(run, styles) ==
  [k \in DOMAIN run.texts |->
    [text |-> run.texts[k], width |-> run.width, style |-> styles[run.style]]]

Decode(wire) ==
  LET rows == [r \in DOMAIN wire.rows |->
                FlattenSeq([n \in DOMAIN wire.rows[r] |-> Expanded(wire.rows[r][n], wire.styles)])]
      decoded == [size |-> wire.size, wraps |-> wire.wraps, links |-> wire.links,
                  cells |-> FlattenSeq(rows)]
  IN IF /\ Len(wire.rows) = wire.size[1] /\ wire.styles # <<>>
        /\ \A r \in DOMAIN wire.rows :
             /\ Len(rows[r]) = wire.size[2]
             /\ \A n \in DOMAIN wire.rows[r] : wire.rows[r][n].style \in DOMAIN wire.styles
        /\ Valid(decoded)
     THEN decoded ELSE None

-----------------------------------------------------------------------------
(* A diff: the whole state, and the cells and rows that differ.  There is  *)
(* none between sizes.                                                      *)

Diff(before, after) ==
  IF before.size # after.size THEN None
  ELSE [size |-> after.size, links |-> after.links,
        cells |-> [i \in {j \in DOMAIN before.cells : before.cells[j] # after.cells[j]} |-> after.cells[i]],
        wraps |-> [r \in {j \in DOMAIN before.wraps : before.wraps[j] # after.wraps[j]} |-> after.wraps[r]]]

Patched(basis, patch) == [i \in DOMAIN basis |-> IF i \in DOMAIN patch THEN patch[i] ELSE basis[i]]

(* Refused for another size, for cells or rows there are not, and for a    *)
(* link, patched or left, that the new table lacks.                         *)
Accepts(basis, diff) ==
  /\ basis.size = diff.size
  /\ DOMAIN diff.cells \subseteq DOMAIN basis.cells /\ DOMAIN diff.wraps \subseteq DOMAIN basis.wraps
  /\ \A i \in DOMAIN basis.cells : LinkIsValid(Patched(basis.cells, diff.cells)[i], diff.links)

Apply(basis, diff) ==
  IF ~Accepts(basis, diff) THEN None
  ELSE [size |-> diff.size, links |-> diff.links,
        wraps |-> Patched(basis.wraps, diff.wraps), cells |-> Patched(basis.cells, diff.cells)]

-----------------------------------------------------------------------------

Draw(i, cell) ==
  /\ i \in DOMAIN screen /\ screen' = [screen EXCEPT ![i] = cell]
  /\ UNCHANGED <<size, wraps, sent, copy>>

Wrap(r) ==
  /\ r \in DOMAIN wraps /\ wraps' = [wraps EXCEPT ![r] = ~@]
  /\ UNCHANGED <<size, screen, sent, copy>>

Resize(s) ==
  /\ size # s /\ size' = s
  /\ screen' = [i \in 1..(s[1] * s[2]) |-> IF i \in DOMAIN screen THEN screen[i] ELSE Blank]
  /\ wraps' = [r \in 1..s[1] |-> FALSE]
  /\ UNCHANGED <<sent, copy>>

SendFull ==
  /\ sent' = Snapshot /\ copy' = Decode(Encode(Snapshot))
  /\ UNCHANGED <<size, screen, wraps>>

SendDiff ==
  \E diff \in {Diff(sent, Snapshot)} :
    /\ diff # None /\ sent # Snapshot
    /\ sent' = Snapshot /\ copy' = Apply(copy, diff)
    /\ UNCHANGED <<size, screen, wraps>>

Init ==
  /\ size \in Sizes
  /\ screen = [i \in 1..(size[1] * size[2]) |-> Blank]
  /\ wraps = [r \in 1..size[1] |-> FALSE]
  /\ sent = BlankSnapshot(size) /\ copy = sent

Next ==
  \/ \E i \in DOMAIN screen, cell \in Drawn : Draw(i, cell)
  \/ \E r \in DOMAIN wraps : Wrap(r)
  \/ \E s \in Sizes : Resize(s)
  \/ SendFull \/ SendDiff

Spec == Init /\ [][Next]_vars

-----------------------------------------------------------------------------
(* Values of the variables. *)
TypeOK == Valid(Snapshot) /\ Valid(sent) /\ Len(screen) = size[1] * size[2]

(* "full_snapshot_is_self_contained_and_unicode_safe", "diff_contains_only *)
(* _changes_and_reconstructs_the_next_snapshot" (terminal_model.rs 806,     *)
(* 826): after any sequence of frames the client has the very snapshot the  *)
(* last one was made of, styles, widths and links included.                 *)
CopyIsWhatWasSent == copy = sent

(* debug_assert_eq!(self.validate(), Ok(())) (terminal_model.rs 741): a     *)
(* patch made for another basis (a blank screen, say) is refused by the     *)
(* client's copy or leaves it valid.                                        *)
PatchesLeaveItValid ==
  \E diff \in {Diff(BlankSnapshot(size), Snapshot)} :
    Accepts(copy, diff) => Valid(Apply(copy, diff))
=============================================================================
