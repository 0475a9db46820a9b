------------------------------- MODULE HostFs -------------------------------
(***************************************************************************)
(* HostFS: the guest's filing system calls served from a host directory.   *)
(* A RISC OS leaf name is a sequence of characters; the host name is the   *)
(* leaf with some characters exchanged and, when the type is not the       *)
(* default, a suffix that holds the type, or the load and execution        *)
(* addresses.  Nothing else records the type, so the code finds an object  *)
(* by scanning host directories for names that convert to the leaf.        *)
(*                                                                         *)
(* Host side: tree (the host's objects) and what stdio still buffers for   *)
(* each open file.  Guest side: the handles it holds and the directory it  *)
(* is listing.                                                             *)
(***************************************************************************)
EXTENDS Naturals, Sequences, FiniteSets, SequencesExt, Functions

CONSTANTS
    Paths,       \* RISC OS paths below the root ($): sequences of leaves, each
                 \* a sequence of characters
    Rank,        \* the order of leaves in a listing (strcasecmp)
    TypeSuffixes,\* suffixes that hold a type or a pair of addresses
    Bytes, MaxLen, MaxOpen,
    Retypes      \* does the guest save a file over one of another type?

Leaves == UNION {Range(ro) : ro \in Paths}
Chars == UNION {Range(leaf) : leaf \in Leaves}
ASSUME HostFsAssumption ==
    /\ MaxOpen \in Nat \ {0} /\ MaxLen \in Nat /\ 0 \in Bytes /\ Retypes \in BOOLEAN
    /\ Paths \subseteq Seq(Leaves) \ {<<>>} /\ Leaves \subseteq Seq(Chars) \ {<<>>}
    \* strcasecmp tells any two leaves apart: of the spellings of one leaf Paths has one.
    /\ \A leaf \in Leaves : leaf \in DOMAIN Rank /\ Rank[leaf] \in Nat
    /\ \A l, m \in Leaves : Rank[l] = Rank[m] => l = m

VARIABLES
    tree,        \* host path (sequence of host names) -> [kind, data]
    open_file,   \* handle -> NULL or the FILE: where it is, its mode, what is buffered
    hostfs_state,
    held,        \* handles the guest was given and did not close
    listing      \* the guest's listing of a directory that has not changed since

vars == <<tree, open_file, hostfs_state, held, listing>>

DEFAULT == "text"
Types == TypeSuffixes \cup {DEFAULT}
Contents == UNION {[1 .. n -> Bytes] : n \in 0 .. MaxLen}
NULL == [at |-> <<>>, update |-> FALSE, put |-> <<>>]   \* an unused entry
Gone == << <<>> >>                                     \* the FILE outlived its name
Handles == 1 .. MaxOpen
NoListing == [dir |-> <<>>, off |-> 0, got |-> <<>>, state |-> "none"]

-----------------------------------------------------------------------------
\* Names
ToHost(c) == CASE c = "/" -> "." [] c = "." -> "/" [] c = "?" -> "#" [] c = "<" -> "$"
               [] c = ">" -> "^" [] OTHER -> c
ToRiscos(c) == CASE c = "." -> "/" [] c = "/" -> "." [] c = "#" -> "?" [] c = "$" -> "<"
                 [] c = "^" -> ">" [] c = " " -> "nbsp" [] OTHER -> c
riscos_path_to_host(leaf) == [i \in DOMAIN leaf |-> ToHost(leaf[i])]
name_host_to_riscos(name) == [i \in DOMAIN name |-> ToRiscos(name[i])]

HasSuffix(name) == name # <<>> /\ Last(name) \in TypeSuffixes

RoLeaf(name) == name_host_to_riscos(IF HasSuffix(name) THEN Front(name) ELSE name)
TypeOf(name) == IF HasSuffix(name) THEN Last(name) ELSE DEFAULT
HostName(leaf, type) ==
    riscos_path_to_host(leaf) \o (IF type = DEFAULT THEN <<>> ELSE <<type>>)
\* The names the guest gets back as it gave them: $, # and ^ and the space cannot be
\* part of a RISC OS leaf, and one that ends like a suffix would lose its end.
ASSUME LeavesAssumption ==
    /\ Chars \cap {"$", "#", "^", " "} = {} /\ DEFAULT \notin TypeSuffixes
    /\ \A leaf \in Leaves : ~HasSuffix(riscos_path_to_host(leaf))
RoPath(hp) == [i \in DOMAIN hp |-> RoLeaf(hp[i])]

IsDir(hp) == hp = <<>> \/ (hp \in DOMAIN tree /\ tree[hp].kind = "dir")
ReadDir(hp) == {Last(q) : q \in {q \in DOMAIN tree : q # <<>> /\ Front(q) = hp}}

\* hostfs_path_scan takes the first match that readdir returns: any of them.
\* Mutant: the name is converted and looked up, so a typed file is not found.
Scan_Exact(hp, leaf) == ReadDir(hp) \cap {riscos_path_to_host(leaf)}
Scan(hp, leaf) == {n \in ReadDir(hp) : RoLeaf(n) = leaf}

\* Has the walk along ro been at the host path hp, one component at a time?
Walked(ro, hp) ==
    Len(hp) <= Len(ro) /\ \A i \in DOMAIN hp : hp[i] \in Scan(SubSeq(hp, 1, i - 1), ro[i])
\* The outcomes of hostfs_path_process: found, the host path when the walk ends,
\* and whether an inner component is missing (an error) rather than the last.
Process(ro) ==
    {[found |-> Len(hp) = Len(ro), at |-> hp, error |-> Len(hp) + 1 < Len(ro)] :
       hp \in {hp \in DOMAIN tree \cup {<<>>} :
                 Walked(ro, hp) /\ (Len(hp) < Len(ro) => Scan(hp, ro[Len(hp) + 1]) = {})}}

\* path_construct: the last component of a host path replaced by leaf and type.
Construct(dir, ro, type) == Append(dir, HostName(Last(ro), type))

-----------------------------------------------------------------------------
\* The host: fopen, stdio's buffer, rename
Padded(d, n) == d \o [i \in 1 .. (IF n > Len(d) THEN n - Len(d) ELSE 0) |-> 0]
Poke(d, off, b) == [Padded(d, off + 1) EXCEPT ![off + 1] = b]
\* The tree after the buffers of the FILEs hs are written out, lowest handle first.
Flushed(hs) ==
    LET after[h \in 0 .. MaxOpen] ==
          IF h = 0 THEN tree
          ELSE IF h \in hs /\ open_file[h].put # <<>> /\ open_file[h].at \in DOMAIN tree
            THEN [after[h - 1] EXCEPT ![open_file[h].at].data =
                     Poke(@, open_file[h].put[1], open_file[h].put[2])]
            ELSE after[h - 1]
    IN after[MaxOpen]
Unbuffered(h) == [open_file EXCEPT ![h].put = <<>>]
Put(t, hp, o) == [q \in DOMAIN t \cup {hp} |-> IF q = hp THEN o ELSE t[q]]
Moved(from, to, q) == IF IsPrefix(from, q) THEN to \o SubSeq(q, Len(from) + 1, Len(q)) ELSE q
\* rename(2): replaces a file at the new name; whoever had that open keeps it, nameless.
HostRename(from, to) ==
    LET stay == {q \in DOMAIN tree : q = from \/ q # to}
        back(q) == CHOOSE r \in stay : Moved(from, to, r) = q
    IN /\ tree' = [q \in {Moved(from, to, r) : r \in stay} |-> tree[back(q)]]
       /\ open_file' = [h \in Handles |->
             IF open_file[h].at = to /\ from # to THEN [open_file[h] EXCEPT !.at = Gone]
             ELSE [open_file[h] EXCEPT !.at = Moved(from, to, @)]]

Leafs(t, ro) == {Last(RoPath(q)) : q \in {q \in DOMAIN t : Front(RoPath(q)) = ro}}
\* A change of the directory being listed ends what is said of the listing.
Disturb ==
    listing' = IF listing.state # "none" /\ Leafs(tree', listing.dir) # Leafs(tree, listing.dir)
               THEN NoListing ELSE listing
Quiet == UNCHANGED vars
Used == {h \in Handles : open_file[h] # NULL}
Free == Handles \ Used

-----------------------------------------------------------------------------
\* Registration, and the machine's reset
hostfs_register(supported) ==
    /\ hostfs_state' = IF supported THEN "registered" ELSE "ignore"
    /\ UNCHANGED <<tree, open_file, held, listing>>
\* An operation before the module has registered: this one and the rest are ignored.
Ignored ==
    /\ hostfs_state = "unregistered" /\ hostfs_state' = "ignore"
    /\ UNCHANGED <<tree, open_file, held, listing>>
\* Mutant: the files stay open.
hostfs_reset_KeepsFiles ==
    /\ hostfs_state' = "unregistered" /\ held' = {} /\ listing' = NoListing
    /\ UNCHANGED <<tree, open_file>>
hostfs_reset ==
    /\ hostfs_state' = "unregistered"
    /\ tree' = Flushed(Used) /\ open_file' = [h \in Handles |-> NULL]
    /\ held' = {} /\ listing' = NoListing

-----------------------------------------------------------------------------
\* Open files.  The guest holds fewer than MaxOpen before it opens another.
hostfs_open_allocate_index == CHOOSE h \in Free : \A g \in Free : h <= g
hostfs_open(ro, update) ==
    /\ Cardinality(held) < MaxOpen
    /\ \E w \in Process(ro) :
         IF ~w.found THEN Quiet
         ELSE IF Free = {}
           THEN hostfs_state' = "aborted" /\ UNCHANGED <<tree, open_file, held, listing>>
         ELSE IF update /\ IsDir(w.at) THEN Quiet            \* fopen fails: EISDIR
         ELSE LET idx == hostfs_open_allocate_index
              IN /\ open_file' = [open_file EXCEPT ![idx] =
                                    [at |-> w.at, update |-> update, put |-> <<>>]]
                 /\ held' = held \cup {idx}
                 /\ UNCHANGED <<tree, hostfs_state, listing>>

\* fseek and fflush write out what is buffered.
Positioned(h) ==
    /\ tree' = Flushed({h}) /\ open_file' = Unbuffered(h)
    /\ UNCHANGED <<held, hostfs_state, listing>>
hostfs_getbytes(h) == Positioned(h)
hostfs_args_7_ensure_file_size(h) == Positioned(h)
hostfs_args_8_write_zeros(h) == Positioned(h)     \* the fwrite is commented out
\* A block of at least the size of stdio's buffer is written at once.
hostfs_putbytes(h, off, b, at_once) ==
    LET now == Flushed({h})
        hp  == open_file[h].at
    IN IF ~open_file[h].update THEN Positioned(h)
       ELSE /\ tree' = IF at_once /\ hp \in DOMAIN tree
                        THEN [now EXCEPT ![hp].data = Poke(@, off, b)] ELSE now
            /\ open_file' = [open_file EXCEPT ![h].put = IF at_once THEN <<>> ELSE <<off, b>>]
            /\ UNCHANGED <<held, hostfs_state, listing>>
hostfs_args_3_write_file_extent(h, n) ==
    LET now == Flushed({h})
        hp  == open_file[h].at
    IN /\ tree' = IF open_file[h].update /\ hp \in DOMAIN tree
                   THEN [now EXCEPT ![hp].data = SubSeq(Padded(@, n), 1, n)] ELSE now
       /\ open_file' = Unbuffered(h) /\ UNCHANGED <<held, hostfs_state, listing>>
hostfs_close(h) ==
    /\ tree' = Flushed({h}) /\ open_file' = [open_file EXCEPT ![h] = NULL]
    /\ held' = held \ {h} /\ UNCHANGED <<hostfs_state, listing>>

-----------------------------------------------------------------------------
\* Whole objects
Writable(hp) == IsDir(Front(hp)) /\ ~IsDir(hp)     \* fopen "wb" succeeds
hostfs_write_file(ro, type, d) ==
    \E w \in Process(ro) :
      /\ (w.found /\ ~Retypes) => TypeOf(Last(w.at)) = type
      /\ LET new == Construct(IF w.found THEN Front(w.at) ELSE w.at, ro, type)
         IN IF w.error \/ (w.found /\ IsDir(w.at)) \/ ~Writable(new) THEN Quiet
            ELSE /\ tree' = Put(tree, new, [kind |-> "file", data |-> d])
                 /\ Disturb /\ UNCHANGED <<open_file, held, hostfs_state>>
hostfs_file_1_write_cat_info(ro, type) ==
    \E w \in Process(ro) :
      IF ~w.found \/ IsDir(w.at) THEN Quiet
      ELSE LET new == Construct(Front(w.at), ro, type)
           IN IF IsDir(new) THEN Quiet
              ELSE HostRename(w.at, new) /\ Disturb /\ UNCHANGED <<held, hostfs_state>>
hostfs_file_6_delete(ro) ==
    \E w \in Process(ro) :
      IF ~w.found \/ (IsDir(w.at) /\ ReadDir(w.at) # {}) THEN Quiet
      ELSE /\ tree' = Restrict(tree, DOMAIN tree \ {w.at})
           /\ open_file' = [h \in Handles |->
                IF open_file[h].at = w.at THEN [open_file[h] EXCEPT !.at = Gone] ELSE open_file[h]]
           /\ Disturb /\ UNCHANGED <<held, hostfs_state>>
hostfs_file_8_create_dir(ro) ==
    \E w \in Process(ro) :
      LET new == Append(w.at, riscos_path_to_host(Last(ro)))
      IN IF w.found \/ w.error \/ ~IsDir(w.at) \/ new \in DOMAIN tree THEN Quiet
         ELSE /\ tree' = Put(tree, new, [kind |-> "dir", data |-> <<>>])
              /\ Disturb /\ UNCHANGED <<open_file, held, hostfs_state>>
\* The new name keeps the load and execution addresses of the object, which
\* for a directory without a suffix are those of the default type.
\* Mutant: the new name is made without the old object's type.
hostfs_func_8_rename_DropsType(ro1, ro2) ==
    \E w1 \in Process(ro1), w2 \in Process(ro2) :
      LET new == Construct(w2.at, ro2, DEFAULT)
      IN IF ~w1.found \/ w2.found \/ w2.error \/ ~IsDir(w2.at) \/ IsPrefix(w1.at, new) THEN Quiet
         ELSE /\ \A q \in DOMAIN tree : RoPath(Moved(w1.at, new, q)) \in Paths
              /\ HostRename(w1.at, new) /\ Disturb /\ UNCHANGED <<held, hostfs_state>>
hostfs_func_8_rename(ro1, ro2) ==
    \E w1 \in Process(ro1), w2 \in Process(ro2) :
      LET new == Construct(IF w2.found THEN Front(w2.at) ELSE w2.at, ro2, TypeOf(Last(w1.at)))
      IN IF \/ ~w1.found \/ (w2.found /\ ro1 # ro2) \/ w2.error
            \/ ~IsDir(Front(new)) \/ (IsPrefix(w1.at, new) /\ w1.at # new)
         THEN Quiet
         ELSE /\ \A q \in DOMAIN tree : RoPath(Moved(w1.at, new, q)) \in Paths   \* bound: depth
              /\ HostRename(w1.at, new) /\ Disturb /\ UNCHANGED <<held, hostfs_state>>

-----------------------------------------------------------------------------
\* Directory listings.  No call ever stores the name of the directory it read, so
\* each re-reads and sorts it, and takes up at the offset the guest passes.
hostfs_cache_dir(hp) ==
    LET names == ReadDir(hp)
        es == CHOOSE es \in [1 .. Cardinality(names) -> names] :
                /\ Range(es) = names
                /\ \A i, j \in DOMAIN es : i < j => Rank[RoLeaf(es[i])] <= Rank[RoLeaf(es[j])]
    IN [i \in DOMAIN es |-> RoLeaf(es[i])]
\* Mutant: the offset returned is one too far.
hostfs_read_dir_OffByOne(l, room) ==
    /\ \E w \in Process(l.dir) :
         LET es    == hostfs_cache_dir(w.at)
             last  == IF l.off + room < Len(es) THEN l.off + room ELSE Len(es)
         IN listing' = IF ~(w.found /\ IsDir(w.at)) \/ l.off >= Len(es)
              THEN [l EXCEPT !.state = "done"]
              ELSE [l EXCEPT !.off = last + 1, !.got = @ \o SubSeq(es, l.off + 1, last)]
    /\ UNCHANGED <<tree, open_file, held, hostfs_state>>
hostfs_read_dir(l, room) ==
    /\ \E w \in Process(l.dir) :
         LET es    == hostfs_cache_dir(w.at)
             last  == IF l.off + room < Len(es) THEN l.off + room ELSE Len(es)
         IN listing' = IF ~(w.found /\ IsDir(w.at)) \/ l.off >= Len(es)
              THEN [l EXCEPT !.state = "done"]
              ELSE [l EXCEPT !.off = last, !.got = @ \o SubSeq(es, l.off + 1, last)]
    /\ UNCHANGED <<tree, open_file, held, hostfs_state>>
\* Starting again is the same call with offset 0.
Start(ro) == [dir |-> ro, off |-> 0, got |-> <<>>, state |-> "reading"]

-----------------------------------------------------------------------------
Init ==
    /\ tree = [hp \in {} |-> 0] /\ open_file = [h \in Handles |-> NULL]
    /\ hostfs_state = "unregistered" /\ held = {} /\ listing = NoListing

FileCall(h) ==
    \/ hostfs_getbytes(h) \/ hostfs_close(h)
    \/ hostfs_args_7_ensure_file_size(h) \/ hostfs_args_8_write_zeros(h)
    \/ \E n \in 0 .. MaxLen : hostfs_args_3_write_file_extent(h, n)
    \/ \E off \in 0 .. MaxLen - 1, b \in Bytes, at_once \in BOOLEAN :
          hostfs_putbytes(h, off, b, at_once)
ObjectCall(ro) ==
    \/ \E update \in BOOLEAN : hostfs_open(ro, update)
    \/ \E t \in Types, d \in Contents : hostfs_write_file(ro, t, d)
    \/ \E t \in Types : hostfs_file_1_write_cat_info(ro, t)
    \/ hostfs_file_6_delete(ro) \/ hostfs_file_8_create_dir(ro)
    \/ \E ro2 \in Paths : hostfs_func_8_rename(ro, ro2)
ListCall ==
    \E room \in 1 .. 2 :
      \/ listing.state = "reading" /\ hostfs_read_dir(listing, room)
      \/ \E ro \in Paths \cup {<<>>} : hostfs_read_dir(Start(ro), room)
Next ==
    \/ \E supported \in BOOLEAN : hostfs_register(supported)
    \/ Ignored \/ hostfs_reset
    \/ /\ hostfs_state = "registered"
       /\ (\E h \in held : FileCall(h)) \/ (\E ro \in Paths : ObjectCall(ro)) \/ ListCall

Spec == Init /\ [][Next]_vars

-----------------------------------------------------------------------------
Names == {HostName(Last(ro), t) : ro \in Paths, t \in Types}
\* Types of the variables (hostfs.c:78-146), and that every object lies in a directory.
TypeOK ==
    /\ \A hp \in DOMAIN tree : /\ \A i \in DOMAIN hp : hp[i] \in Names
                               /\ RoPath(hp) \in Paths /\ IsDir(Front(hp))
                               /\ tree[hp].kind \in {"file", "dir"} /\ tree[hp].data \in Contents
    /\ held \subseteq Handles
    /\ \A h \in Handles : /\ open_file[h].at \in DOMAIN tree \cup {<<>>, Gone}
                          /\ open_file[h].update \in BOOLEAN
    /\ hostfs_state \in {"unregistered", "registered", "ignore"}

\* The table of open files and the guest agree on which handles are open, through
\* failed opens, closes, resets and registrations: a leaked entry would in the end
\* make hostfs_open abort the emulator, a stale one would read another file.
HandlesMatch == Used = held

\* What every state satisfies: types, and handles that agree with the guest's.
HostFsInv == TypeOK /\ HandlesMatch

\* No directory holds two host files for one RISC OS name: which of them a call
\* finds would depend on the order readdir returns them in.
NamesUnique == \A p, q \in DOMAIN tree : RoPath(p) = RoPath(q) => p = q

\* A listing that reached the end of a directory nobody changed meanwhile has
\* returned every object once, in order, however many calls it took.
ListingComplete ==
    listing.state = "done" =>
      /\ Range(listing.got) = Leafs(tree, listing.dir)
      /\ \A i, j \in DOMAIN listing.got : i < j => Rank[listing.got[i]] < Rank[listing.got[j]]

\* HostFS implements the guest's filing system: seen through the name conversion,
\* each call changes only what it names, keeps types and data across renames, and
\* a file's data changes only under a file open for update.
Catalogue ==
    [ro \in {RoPath(hp) : hp \in DOMAIN tree} |->
       LET hp == CHOOSE hp \in DOMAIN tree : RoPath(hp) = ro
       IN [kind |-> tree[hp].kind, type |-> TypeOf(Last(hp)), data |-> tree[hp].data]]
FS == INSTANCE FilingSystem WITH
        cat <- Catalogue, writers <- {RoPath(open_file[h].at) : h \in {h \in Used : open_file[h].update}}
Filing == FS!Spec
=============================================================================
