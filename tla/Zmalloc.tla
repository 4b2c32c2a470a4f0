------------------------------ MODULE Zmalloc -------------------------------
(***************************************************************************)
(* How many bytes zmalloc.c asks the C library for and how many a caller   *)
(* may use.  Running out of memory aborts the process, so an allocation    *)
(* that returns has succeeded.  used_memory, which nothing reads, is left  *)
(* out.                                                                    *)
(***************************************************************************)
EXTENDS Integers

PREFIX_SIZE == 8        \* sizeof(size_t): HAVE_MALLOC_SIZE is not defined

(* zmalloc and zcalloc ask for a prefix they do not use ... *)
zmalloc(size) == size + PREFIX_SIZE

(* ... and zrealloc of an existing block does not. *)
zrealloc(size) == size

(* External: the bytes a chunk of malloc(n) can hold (glibc, 64 bits): a    *)
(* multiple of 16 with its 8 bytes of size, and at least 24.                *)
Usable(n) ==
    LET chunk == 16 * ((n + 8 + 15) \div 16)
    IN  IF chunk < 32 THEN 24 ELSE chunk - 8
=============================================================================
