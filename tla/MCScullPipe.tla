---------------------------- MODULE MCScullPipe ----------------------------
(* Instances of ScullPipe for TLC.                                         *)
EXTENDS ScullPipe, TLC

CONSTANTS p1, p2, p3, a, b

RDONLY  == {"O_LARGEFILE"}
WRONLY  == {"O_WRONLY", "O_LARGEFILE"}
RDWR    == {"O_RDWR", "O_LARGEFILE"}
NOIO    == {"O_WRONLY", "O_RDWR"}

(* A reader and a writer.                                                  *)
PipeFlags == (p1 :> {RDONLY}) @@ (p2 :> {WRONLY})

(* One process reads and may write, or has O_NONBLOCK and nothing else in  *)
(* f_flags; the other writes or does neither.                              *)
FilesFlags == (p1 :> {RDONLY, RDWR, {"O_NONBLOCK"}}) @@ (p2 :> {WRONLY, NOIO})

(* One process reads, writes and polls; the other writes.                  *)
PollFlags == (p1 :> {RDWR}) @@ (p2 :> {WRONLY})

(* Two readers, one of which also writes and polls.                        *)
PollRaceFlags == (p1 :> {RDWR}) @@ (p2 :> {RDONLY}) @@ (p3 :> {RDONLY})

=============================================================================
