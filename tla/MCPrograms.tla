----------------------------- MODULE MCPrograms -----------------------------
(***************************************************************************)
(* Programs on a machine of 112 frames, with pages of 8 words.             *)
(***************************************************************************)
EXTENDS Programs

Header(o, v, f, m) == [offset |-> o, vaddr |-> v, filesz |-> f, memsz |-> m]

\* shell.elf, chudedit.elf and test_program.elf, a page of theirs scaled to
\* eight words, and one whose segment starts inside a sector and a page.
MCExecutables ==
  << << Header(8, 72, 19, 19), Header(32, 96, 1, 9) >>,
     << Header(8, 72, 9, 9), Header(24, 88, 0, 1) >>,
     << Header(8, 0, 9, 9) >>,
     << Header(13, 77, 11, 12) >> >>

Ram(b, l, a) == [base |-> b, length |-> l, available |-> a]

\* Low memory, the hole below the kernel, memory, and the range at its end.
MCE820 == << Ram(0, 2, TRUE), Ram(2, 2, FALSE), Ram(4, 108, TRUE),
             Ram(112, 4, FALSE) >>

\* Two and four pages below the stack's first page, and far below it.
MCTouched == {59 * 8 - 3, 57 * 8 - 3, 300}
=============================================================================
