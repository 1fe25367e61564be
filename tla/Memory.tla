------------------------------- MODULE Memory -------------------------------
(***************************************************************************)
(* The memory manager of the JPEG library: jmemmgr.c over jmemansi.c or    *)
(* jmemnobs.c. Objects are cut from pools that live as long as the JPEG    *)
(* object or as one image; arrays of rows are allocated in chunks; virtual *)
(* arrays are requested first and given their windows, and a temporary     *)
(* file if they need one, all at once when the need is known. One of them, *)
(* the watched one, is followed in VirtualArray with what it holds.        *)
(*                                                                         *)
(*   alive     the manager exists                                          *)
(*   storage   the lists of pools, newest large pool first, and the count  *)
(*             total_space_allocated; heap is what malloc() has given      *)
(*   arrays    the control blocks of the virtual arrays, in the order of   *)
(*             the requests                                                *)
(*   files     the temporary files that are open                           *)
(*   setup     the build and its surroundings, which do not change         *)
(*                                                                         *)
(* After an error (status "broken", "refused" or "bug") the application    *)
(* only frees what it has.                                                 *)
(***************************************************************************)
EXTENDS VirtualArray, Sequences, FiniteSets

CONSTANTS Align,        \* SIZEOF(ALIGN_TYPE)
          Header,       \* SIZEOF(small_pool_hdr) = SIZEOF(large_pool_hdr)
          Control,      \* SIZEOF(my_memory_mgr)
          ArrayControl, \* SIZEOF(struct jvirt_sarray_control)
          Pointer,      \* SIZEOF(JSAMPROW)
          MAX_ALLOC_CHUNK, MIN_SLOP,
          FirstSlop, ExtraSlop, \* first_pool_slop, extra_pool_slop
          Heaps,        \* how much malloc() may be able to give
          Limits,       \* values of max_memory_to_use: compiled in or from JPEGMEM
          Sizes,        \* sizes of the objects that are asked for
          Strips,       \* [width, rows] of the plain arrays that are asked for
          Shapes,       \* [kind, width, rows, maxaccess] of the virtual arrays
          MaxObjects, MaxArrays \* bounds: requests in one life of the manager

PERMANENT == 0
IMAGE == 1
Pools == {PERMANENT, IMAGE}

ASSUME SizesAssumption ==
  /\ Align \in {1, 2, 4, 8, 16}
  /\ Header \in Nat \ {0} /\ MAX_ALLOC_CHUNK \in Nat
  /\ MAX_ALLOC_CHUNK % Align = 0 /\ Header % Align = 0
  /\ Control \in Nat /\ ArrayControl \in Nat /\ Pointer \in Nat
  /\ FirstSlop \in [Pools -> Nat] /\ ExtraSlop \in [Pools -> Nat]
ASSUME InputsAssumption ==
  /\ Heaps \subseteq Nat /\ Limits \subseteq Int /\ Sizes \subseteq Nat
  /\ Strips \subseteq [width : Nat \ {0}, rows : Nat]
  /\ Shapes \subseteq [kind : {"sample", "block"}, width : Nat \ {0}, rows : Nat \ {0},
                       maxaccess : Nat \ {0}]
  /\ MaxArrays \in Nat

VARIABLES alive, storage, arrays, files, requests, setup

memory == <<alive, storage, arrays, files, requests, setup>>

NoStorage == [small |-> [p \in Pools |-> <<>>], large |-> [p \in Pools |-> <<>>],
              total |-> 0, heap |-> 0, error |-> FALSE]

Gives(s, size) == s.heap + size <= setup.heap          \* malloc()
Failed(s) == [s EXCEPT !.error = TRUE]                 \* out_of_memory()
Obtained(s, size) == [s EXCEPT !.heap = @ + size, !.total = @ + size]

Rounded(size) == Align * ((size + Align - 1) \div Align)

\* The slops that are tried: the first, then halves of it that are not too small.
Slops(first) ==
  {slop \in 0 .. first :
     \/ slop = first
     \/ slop >= MIN_SLOP /\ \E k \in 1 .. 15 : slop = first \div 2 ^ k}

NewPoolAsWanted(s, pool, size) ==             \* a mutant: counts the slop it asked for first
  LET min_request == Rounded(size) + Header
      wanted == IF s.small[pool] = <<>> THEN FirstSlop[pool] ELSE ExtraSlop[pool]
      slop == Minimum(wanted, MAX_ALLOC_CHUNK - min_request)
      given == {t \in Slops(slop) : Gives(s, min_request + t)}
      most == CHOOSE t \in given : \A u \in given : t >= u
  IN IF given = {} THEN Failed(s)
     ELSE [Obtained(s, min_request + most) EXCEPT
             !.small[pool] = Append(@, [obtained |-> min_request + most, used |-> 0,
                                        left |-> Rounded(size) + slop, objects |-> {}])]
NewPool(s, pool, size) ==
  LET min_request == Rounded(size) + Header
      wanted == IF s.small[pool] = <<>> THEN FirstSlop[pool] ELSE ExtraSlop[pool]
      slop == Minimum(wanted, MAX_ALLOC_CHUNK - min_request)
      given == {t \in Slops(slop) : Gives(s, min_request + t)}
      most == CHOOSE t \in given : \A u \in given : t >= u
  IN IF given = {} THEN Failed(s)
     ELSE [Obtained(s, min_request + most) EXCEPT
             !.small[pool] = Append(@, [obtained |-> min_request + most, used |-> 0,
                                        left |-> Rounded(size) + most, objects |-> {}])]

\* An object takes the next bytes of its pool.
Cut(p, size) ==
  [obtained |-> p.obtained, used |-> p.used + Rounded(size), left |-> p.left - Rounded(size),
   objects |-> p.objects \union {[at |-> p.used, size |-> size]}]

\* The first pool of the list that has room, or a new one at its end.
alloc_small(s, pool, size) ==
  LET Roomy(list) == {i \in DOMAIN list : list[i].left >= Rounded(size)}
      ready == IF Roomy(s.small[pool]) = {} THEN NewPool(s, pool, size) ELSE s
      room == Roomy(ready.small[pool])
      i == CHOOSE j \in room : \A k \in room : j <= k
  IN IF s.error THEN s
     ELSE IF size > MAX_ALLOC_CHUNK - Header THEN Failed(s)
     ELSE IF ready.error THEN ready
     ELSE [ready EXCEPT !.small[pool][i] = Cut(@, size)]

alloc_large(s, pool, size) ==
  LET request == Rounded(size) + Header
  IN IF s.error THEN s
     ELSE IF size > MAX_ALLOC_CHUNK - Header \/ ~ Gives(s, request) THEN Failed(s)
     ELSE [Obtained(s, request) EXCEPT
             !.large[pool] = <<[obtained |-> request, used |-> Rounded(size), left |-> 0,
                                objects |-> {[at |-> 0, size |-> size]}]>> \o @]

(***************************************************************************)
(* alloc_sarray() and alloc_barray(): pointers to the rows, and the rows   *)
(* in chunks of as many as one request allows. A row of the result is      *)
(* <<number of its large object, place in it>>.                            *)
(***************************************************************************)
RowsPerChunk(width, numrows) == Minimum((MAX_ALLOC_CHUNK - Header) \div width, numrows)

alloc_rows(s, pool, width, numrows) ==
  LET rpc == RowsPerChunk(width, numrows)
      chunks == IF numrows = 0 THEN 0 ELSE (numrows - 1) \div rpc + 1
      done[k \in 0 .. chunks] ==
        IF k = 0 THEN alloc_small(s, pool, numrows * Pointer)
        ELSE alloc_large(done[k - 1], pool, Minimum(rpc, numrows - (k - 1) * rpc) * width)
  IN IF s.error \/ width > MAX_ALLOC_CHUNK - Header THEN Failed(s) \* JERR_WIDTH_OVERFLOW
     ELSE done[chunks]

RowsOf(s, pool, width, numrows) ==
  LET rpc == RowsPerChunk(width, numrows)
  IN [i \in 0 .. numrows - 1 |-> <<Len(s.large[pool]) + 1 + i \div rpc, (i % rpc) * width>>]

-----------------------------------------------------------------------------
NoRows == [i \in 0 .. -1 |-> <<0, 0>>]

\* request_virt_sarray() and request_virt_barray().
ControlBlock(shape, watch) ==
  [shape |-> shape, watched |-> watch, realized |-> FALSE, rows_in_mem |-> 0,
   b_s_open |-> FALSE, mem_buffer |-> NoRows, rowsperchunk |-> 0]

\* The sum of a sequence of numbers.
Added(w) ==
  LET sum[i \in 0 .. Len(w)] == IF i = 0 THEN 0 ELSE sum[i - 1] + w[i]
  IN sum[Len(w)]

Unrealized_arrays == {i \in DOMAIN arrays : ~ arrays[i].realized}
PerMinheight(i) ==
  IF arrays[i].realized THEN 0 ELSE arrays[i].shape.maxaccess * arrays[i].shape.width
FullHeight(i) ==
  IF arrays[i].realized THEN 0 ELSE arrays[i].shape.rows * arrays[i].shape.width
space_per_minheight == Added([i \in DOMAIN arrays |-> PerMinheight(i)])
maximum_space == Added([i \in DOMAIN arrays |-> FullHeight(i)])

jpeg_mem_available ==
  IF setup.files THEN setup.limit - storage.total ELSE maximum_space

AsAvailable ==                                \* a mutant: no strip where nothing is available
  IF jpeg_mem_available < 0 THEN 0 ELSE jpeg_mem_available \div space_per_minheight
\* How many strips of every array the memory is to hold.
max_minheights == Maximum(1, IF jpeg_mem_available < 0 THEN 0
                             ELSE jpeg_mem_available \div space_per_minheight)
minheights(shape) == (shape.rows - 1) \div shape.maxaccess + 1
FitsByRows(shape) ==                          \* a mutant: the heights, rounded down
  jpeg_mem_available >= maximum_space \/ shape.rows \div shape.maxaccess <= max_minheights
FitsInMemory(shape) ==
  jpeg_mem_available >= maximum_space \/ minheights(shape) <= max_minheights
WindowRows(shape) ==
  IF FitsInMemory(shape) THEN shape.rows ELSE max_minheights * shape.maxaccess

\* The lists of both kinds have the newest array first; samples come before blocks.
Precedes(i, j) ==
  \/ arrays[i].shape.kind = "sample" /\ arrays[j].shape.kind = "block"
  \/ arrays[i].shape.kind = arrays[j].shape.kind /\ i > j
RealizeOrders ==
  {order \in [1 .. Cardinality(Unrealized_arrays) -> Unrealized_arrays] :
     /\ \A i \in Unrealized_arrays : \E k \in DOMAIN order : order[k] = i
     /\ \A k, l \in DOMAIN order : k < l => Precedes(order[k], order[l])}

\* One array: the file first, then the buffer. may_open is the number of
\* temporary files that tmpfile() will still be able to make.
RealizeArray(acc, i) ==
  LET shape == arrays[i].shape
      rows == WindowRows(shape)
      opens == ~ FitsInMemory(shape) /\ acc.may_open # 0
      n == IF opens THEN 1 ELSE 0
      s == IF ~ FitsInMemory(shape) /\ acc.may_open = 0 THEN Failed(acc.storage)
           ELSE alloc_rows(acc.storage, IMAGE, shape.width, rows)
      block == [shape |-> shape, watched |-> arrays[i].watched, realized |-> ~ s.error,
                rows_in_mem |-> rows, b_s_open |-> opens,
                mem_buffer |-> IF s.error THEN NoRows
                               ELSE RowsOf(acc.storage, IMAGE, shape.width, rows),
                rowsperchunk |-> IF s.error THEN 0 ELSE RowsPerChunk(shape.width, rows)]
  IN IF acc.storage.error THEN acc
     ELSE [storage |-> s, arrays |-> [acc.arrays EXCEPT ![i] = block],
           files |-> acc.files + n, may_open |-> acc.may_open - n]

\* All of them, one after another.
Realized(order, may_open) ==
  LET acc[n \in 0 .. Len(order)] ==
        IF n = 0
        THEN [storage |-> storage, arrays |-> arrays, files |-> files, may_open |-> may_open]
        ELSE RealizeArray(acc[n - 1], order[n])
  IN acc[Len(order)]

-----------------------------------------------------------------------------
MemoryInit ==
  /\ alive = FALSE /\ storage = NoStorage /\ arrays = <<>> /\ files = 0 /\ requests = 0
  /\ setup \in [heap : Heaps, limit : Limits, files : BOOLEAN]
  /\ Unrealized

Fine == alive /\ status \in {"none", "open"}
OnError(failed) == IF failed THEN Break ELSE UNCHANGED vars

\* jinit_memory_mgr().
Create ==
  /\ ~ alive /\ status = "none"
  /\ IF Gives(storage, Control)
     THEN alive' = TRUE /\ storage' = Obtained(storage, Control)
     ELSE UNCHANGED <<alive, storage>>
  /\ UNCHANGED <<arrays, files, requests, setup, vars>>

Allocate(s) ==
  /\ Fine /\ requests < MaxObjects /\ requests' = requests + 1
  /\ storage' = [s EXCEPT !.error = FALSE]
  /\ OnError(s.error)
  /\ UNCHANGED <<alive, arrays, files, setup>>

AllocSmall(pool, size) == Allocate(alloc_small(storage, pool, size))
AllocLarge(pool, size) == Allocate(alloc_large(storage, pool, size))
AllocRows(pool, strip_shape) ==
  Allocate(alloc_rows(storage, pool, strip_shape.width, strip_shape.rows))

Request(shape, watch) ==
  LET s == alloc_small(storage, IMAGE, ArrayControl)
  IN /\ Fine /\ Len(arrays) < MaxArrays
     /\ watch => /\ shape.rows = Rows /\ shape.maxaccess = MaxAccess
                 /\ \A i \in DOMAIN arrays : ~ arrays[i].watched
     /\ storage' = [s EXCEPT !.error = FALSE]
     /\ arrays' = IF s.error THEN arrays ELSE Append(arrays, ControlBlock(shape, watch))
     /\ OnError(s.error)
     /\ UNCHANGED <<alive, files, requests, setup>>

realize_virt_arrays(may_open) ==
  /\ Fine /\ Unrealized_arrays # {}
  /\ ~ setup.files => may_open = 0            \* JERR_NO_BACKING_STORE
  /\ \E order \in RealizeOrders :
       LET done == Realized(order, may_open)
           watched == {i \in Unrealized_arrays : arrays[i].watched}
       IN /\ storage' = [done.storage EXCEPT !.error = FALSE]
          /\ arrays' = done.arrays /\ files' = done.files
          /\ IF done.storage.error THEN Break
             ELSE IF watched = {} THEN UNCHANGED vars
             ELSE \E i \in watched : Realize(done.arrays[i].rows_in_mem, done.arrays[i].b_s_open)
  /\ UNCHANGED <<alive, requests, setup>>

UseWatched == /\ alive /\ Use /\ UNCHANGED memory

\* A pool's space is what its header accounts for.
SpaceFreed(list) == Added([i \in DOMAIN list |-> list[i].used + list[i].left + Header])
Released(list) == Added([i \in DOMAIN list |-> list[i].obtained])

FreeLargeOnly(s, pool) ==                     \* a mutant: forgets the small pools
  [s EXCEPT !.total = @ - SpaceFreed(s.large[pool]),
            !.heap = @ - Released(s.large[pool]), !.large[pool] = <<>>]
free_pool(s, pool) ==
  [s EXCEPT !.total = @ - SpaceFreed(s.large[pool]) - SpaceFreed(s.small[pool]),
            !.heap = @ - Released(s.large[pool]) - Released(s.small[pool]),
            !.large[pool] = <<>>, !.small[pool] = <<>>]

Closing == files - Cardinality({i \in DOMAIN arrays : arrays[i].b_s_open})

\* jpeg_abort(), and jpeg_finish_compress() or _decompress(), which end in it.
Abort ==
  /\ alive
  /\ storage' = free_pool(storage, IMAGE)
  /\ files' = Closing /\ arrays' = <<>>
  /\ Free
  /\ UNCHANGED <<alive, requests, setup>>

\* jpeg_destroy(): self_destruct().
Destroy ==
  /\ alive /\ alive' = FALSE
  /\ storage' = LET s == free_pool(free_pool(storage, IMAGE), PERMANENT)
                IN [s EXCEPT !.heap = @ - Control, !.total = 0]
  /\ files' = Closing /\ arrays' = <<>> /\ requests' = 0
  /\ Free
  /\ UNCHANGED setup

MemoryNext ==
  \/ Create \/ Abort \/ Destroy \/ UseWatched
  \/ \E pool \in Pools :
       \/ \E size \in Sizes : AllocSmall(pool, size) \/ AllocLarge(pool, size)
       \/ \E strip_shape \in Strips : AllocRows(pool, strip_shape)
  \/ \E shape \in Shapes, watch \in BOOLEAN : Request(shape, watch)
  \/ \E may_open \in 0 .. MaxArrays : realize_virt_arrays(may_open)

MemorySpec == MemoryInit /\ [][MemoryNext]_<<vars, memory>>

-----------------------------------------------------------------------------
AllPools(s) ==
  (UNION {{<<"small", p, i>> : i \in DOMAIN s.small[p]} : p \in Pools})
    \union (UNION {{<<"large", p, i>> : i \in DOMAIN s.large[p]} : p \in Pools})
PoolAt(s, id) == IF id[1] = "small" THEN s.small[id[2]][id[3]] ELSE s.large[id[2]][id[3]]

\* total_space_allocated, which decides how much of a virtual array the memory
\* holds, is what malloc() has given, also after slops that had to be halved,
\* errors on the way and pools that came and went; every temporary file has its
\* array; and a manager that is gone leaves neither memory nor files.
BooksAreTrue ==
  /\ storage.total = storage.heap
  /\ files = Cardinality({i \in DOMAIN arrays : arrays[i].b_s_open})
  /\ ~ alive => storage.heap = 0 /\ files = 0
  /\ \A id \in AllPools(storage) :
       LET p == PoolAt(storage, id) IN p.used + p.left + Header = p.obtained

\* The objects of a pool are aligned, lie inside what was obtained for the pool
\* and do not overlap.
ObjectsApart ==
  \A id \in AllPools(storage) :
    LET p == PoolAt(storage, id)
    IN /\ p.obtained <= MAX_ALLOC_CHUNK
       /\ \A a \in p.objects : a.at % Align = 0 /\ Header + a.at + a.size <= p.obtained
       /\ \A a, b \in p.objects :
            a # b => (a.at + a.size <= b.at) \/ (b.at + b.size <= a.at)

\* What VirtualArray takes for granted of realize_virt_arrays(): the window
\* holds all rows or, with a file, fewer than all and at least a strip; and the
\* rows that do_sarray_io() transfers at a time lie side by side.
WindowsAreWhole ==
  \A i \in {j \in DOMAIN arrays : arrays[j].realized} :
    LET a == arrays[i]
    IN /\ IF a.b_s_open THEN a.rows_in_mem >= a.shape.maxaccess /\ a.rows_in_mem < a.shape.rows
          ELSE a.rows_in_mem = a.shape.rows
       /\ a.rowsperchunk > 0
       /\ \A r \in 1 .. a.rows_in_mem - 1 :
            r % a.rowsperchunk # 0 =>
              /\ a.mem_buffer[r][1] = a.mem_buffer[r - 1][1]
              /\ a.mem_buffer[r][2] = a.mem_buffer[r - 1][2] + a.shape.width

\* The comment in realize_virt_arrays(): full height if that is available,
\* otherwise the memory is parcelled out with the same number of minimal
\* heights for each. The windows that a call makes never take more than is
\* available, or than the least they need.
NewSpace(i) ==
  IF arrays'[i].realized /\ ~ arrays[i].realized
  THEN arrays'[i].rows_in_mem * arrays'[i].shape.width ELSE 0
TakesItsShare ==
  Added([i \in DOMAIN arrays |-> NewSpace(i)]) <= Maximum(jpeg_mem_available, space_per_minheight)
BuffersFitMemory == [][Len(arrays') >= Len(arrays) => TakesItsShare]_<<vars, memory>>
=============================================================================
