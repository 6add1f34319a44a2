----------------------------- MODULE FileCache ------------------------------
(***************************************************************************)
(* The backing file of a media buffer (progressbuffer/posix/filecache.c):  *)
(* one temporary file, written and read through two handles whose          *)
(* positions the Cache structure mirrors.  The unit is one block, what the *)
(* source writes and what cache_read_buffer reads at a time.  A write past *)
(* the end of the file appends, any other overwrites; the writer only ever *)
(* rewinds to 0, so it never leaves a gap.  File position p holds file[p+1].*)
(* A write that the file system cuts short is left out.                    *)
(***************************************************************************)
EXTENDS Integers, Sequences

create_cache == [read |-> 0, write |-> 0, file |-> <<>>]

cache_write_buffer(c, block) ==
  [c EXCEPT !.write = c.write + 1,
            !.file  = IF c.write < Len(c.file) THEN [c.file EXCEPT ![c.write + 1] = block]
                                               ELSE Append(c.file, block)]

(* The block cache_read_buffer returns, and the cache it leaves.           *)
BlockRead(c)         == c.file[c.read + 1]
cache_read_buffer(c) == [c EXCEPT !.read = c.read + 1]

(* lseek refuses a negative position, and then the handle stays put.       *)
cache_set_read_position(c, p)  == IF p >= 0 THEN [c EXCEPT !.read = p] ELSE c
cache_set_write_position(c, p) == IF p >= 0 THEN [c EXCEPT !.write = p] ELSE c

cache_has_enough_data(c) == c.read < c.write

(* What every cache is: the positions and the file it can have.            *)
Cache(Blocks) == {c \in [read : Nat, write : Nat, file : Seq(Blocks)] : c.write <= Len(c.file)}
=============================================================================
