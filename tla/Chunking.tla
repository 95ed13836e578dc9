------------------------------ MODULE Chunking ------------------------------
(***************************************************************************)
(* From a canonical document to the chunks that are searched               *)
(* (modules/knowledge/domain/chunking.py): the tree of its headings, a     *)
(* parent chunk for every unit of the tree, the children of every parent.  *)
(*                                                                         *)
(* A block stands for its id; ids are unique in a document.  A text is the *)
(* sequence of its sentences, each a pair of its block and its number, and *)
(* a sentence is as long as its block says.  The overlap counts sentences  *)
(* where the code counts words.  An id that is a digest is left out where  *)
(* it is nothing but the record it covers, and so are the warnings.        *)
(***************************************************************************)
EXTENDS Integers, FiniteSets, SequencesExt

CONSTANTS Documents,          \* the documents that may arrive, sequences of blocks
          parent_max_tokens, child_max_tokens, overlap_tokens   \* ChunkingConfigV1

BlockType == {"TITLE", "HEADING", "PARAGRAPH", "LIST_ITEM", "TABLE", "FORMULA", "FIGURE", "CAPTION",
              "FOOTNOTE", "REFERENCE", "HEADER_FOOTER", "UNKNOWN"}
\* The level is that of a heading; a sentence is known by its length, and a text without one is one.
Block == [id : Nat, title : Nat, page : Nat, reading_order : Nat, block_type : BlockType, level : Int,
          tokens : Nat, sentences : Seq(Nat) \ {<<>>}]

ASSUME ChunkingConfig ==
  /\ Documents \subseteq Seq(Block)
  /\ \A d \in Documents : \A i, j \in DOMAIN d : d[i].id = d[j].id => i = j
  /\ parent_max_tokens \in Nat \ {0} /\ child_max_tokens \in Nat \ {0} /\ overlap_tokens \in Nat

VARIABLES document,   \* the document under work, none before it arrives
          built       \* what was made of it, by the step that made it

chunkVars == <<document, built>>

-----------------------------------------------------------------------------
(* The tree *)

HeadingType == {"TITLE", "HEADING"}
ATOMIC_TYPES == {"TABLE", "FORMULA", "FIGURE", "CAPTION"}

Summed(numbers) ==
  LET sum[n \in 0..Len(numbers)] == IF n = 0 THEN 0 ELSE sum[n - 1] + numbers[n]
  IN  sum[Len(numbers)]

TokensIn(blocks) == Summed([i \in DOMAIN blocks |-> blocks[i].tokens])
PagesOf(blocks) == {b.page : b \in ToSet(blocks)}

\* The pages by number, the blocks of each by reading order, else as they arrived: the
\* place of a block is how many come before it.
Ordered(blocks) ==
  LET before(i, j) == \/ blocks[i].page < blocks[j].page
                      \/ /\ blocks[i].page = blocks[j].page
                         /\ \/ blocks[i].reading_order < blocks[j].reading_order
                            \/ blocks[i].reading_order = blocks[j].reading_order /\ i < j
      place == [i \in DOMAIN blocks |-> Cardinality({j \in DOMAIN blocks : before(j, i)}) + 1]
  IN  [n \in DOMAIN blocks |-> blocks[CHOOSE i \in DOMAIN blocks : place[i] = n]]

Node(kind, path, level, blocks, pages) ==
  [kind |-> kind, structure_path |-> path, heading_level |-> level, blocks |-> blocks,
   page_from |-> Min(pages), page_to |-> Max(pages)]

\* The work of build_document_tree.  Nodes are listed in the order they are made, which
\* is the order of a walk from the root: a node is always attached to the open section.
Started == [nodes |-> <<>>, stack |-> <<>>, saw_heading |-> FALSE, atomic_buf |-> <<>>,
            header_footer |-> <<>>, references |-> <<>>]

OpenPath(w) == IF w.stack = <<>> THEN <<>> ELSE w.nodes[Last(w.stack)].structure_path

flush_atomic(w) ==
  IF w.atomic_buf = <<>> THEN w
  ELSE [w EXCEPT !.nodes = Append(@, Node("ATOMIC_GROUP", OpenPath(w), 0, w.atomic_buf, PagesOf(w.atomic_buf))),
                 !.atomic_buf = <<>>]

\* Fault: a heading does not close the section of its own level.
Popped_Fault(w, level) ==
  LET Closes(n) == w.nodes[w.stack[n]].heading_level > level
      left == Min({n \in 0..Len(w.stack) : \A m \in n + 1..Len(w.stack) : Closes(m)})
  IN  [w EXCEPT !.stack = SubSeq(@, 1, left)]
\* As long as the section on top is of the level or below, it goes.
Popped(w, level) ==
  LET Closes(n) == w.nodes[w.stack[n]].heading_level >= level
      left == Min({n \in 0..Len(w.stack) : \A m \in n + 1..Len(w.stack) : Closes(m)})
  IN  [w EXCEPT !.stack = SubSeq(@, 1, left)]

OpenSection(w, b) ==
  LET p == Popped(w, b.level)
  IN  [p EXCEPT !.nodes = Append(@, Node("SECTION", Append(OpenPath(p), b.title), b.level, <<>>, {b.page})),
                !.stack = Append(@, Len(p.nodes) + 1), !.saw_heading = TRUE]

Added(w, n, b) ==
  [w EXCEPT !.nodes[n].blocks = Append(@, b), !.nodes[n].page_to = Max({@, b.page})]

VirtualOf(w, page) ==
  {n \in DOMAIN w.nodes : w.nodes[n].kind = "VIRTUAL_SECTION" /\ w.nodes[n].page_from = page}

AddBody(w, b) ==
  IF w.saw_heading THEN Added(w, Last(w.stack), b)
  ELSE IF VirtualOf(w, b.page) # {} THEN Added(w, Max(VirtualOf(w, b.page)), b)
  ELSE [w EXCEPT !.nodes = Append(@, Node("VIRTUAL_SECTION", <<"virtual", b.page>>, 0, <<b>>, {b.page}))]

Visit(w, b) ==
  CASE b.block_type = "HEADER_FOOTER" -> [flush_atomic(w) EXCEPT !.header_footer = Append(@, b)]
    [] b.block_type = "REFERENCE" -> [flush_atomic(w) EXCEPT !.references = Append(@, b)]
    [] b.block_type \in HeadingType -> OpenSection(flush_atomic(w), b)
    [] b.block_type \in ATOMIC_TYPES -> [w EXCEPT !.atomic_buf = Append(@, b)]
    [] OTHER -> AddBody(flush_atomic(w), b)

build_document_tree(blocks) ==
  LET ordered == Ordered(blocks)
      visited[n \in 0..Len(ordered)] == IF n = 0 THEN Started ELSE Visit(visited[n - 1], ordered[n])
      w == flush_atomic(visited[Len(ordered)])
  IN  IF w.references = <<>> THEN w.nodes
      ELSE Append(w.nodes, Node("REFERENCES", <<"references">>, 0, w.references, PagesOf(w.references)))

-----------------------------------------------------------------------------
(* Parent chunks *)

walk_units(tree) ==
  LET units[n \in 0..Len(tree)] ==
        IF n = 0 THEN <<>> ELSE IF tree[n].blocks = <<>> THEN units[n - 1] ELSE Append(units[n - 1], tree[n])
  IN  units[Len(tree)]

IntoGroup(groups, b) ==
  IF groups = <<>> \/ TokensIn(Last(groups)) + b.tokens > parent_max_tokens
  THEN Append(groups, <<b>>)
  ELSE [groups EXCEPT ![Len(groups)] = Append(@, b)]

split_groups(blocks) ==
  LET groups[n \in 0..Len(blocks)] == IF n = 0 THEN <<>> ELSE IntoGroup(groups[n - 1], blocks[n])
  IN  groups[Len(blocks)]

make_parent(unit, blocks) ==
  [structure_path |-> unit.structure_path, page_from |-> unit.page_from, page_to |-> unit.page_to,
   blocks |-> blocks, token_count |-> TokensIn(blocks)]

create_parent_chunks(tree) ==
  LET Groups(unit) == IF unit.kind = "ATOMIC_GROUP" \/ TokensIn(unit.blocks) <= parent_max_tokens
                      THEN <<unit.blocks>> ELSE split_groups(unit.blocks)
      Parents(unit) == [g \in DOMAIN Groups(unit) |-> make_parent(unit, Groups(unit)[g])]
      units == walk_units(tree)
  IN  FlattenSeq([u \in DOMAIN units |-> Parents(units[u])])

-----------------------------------------------------------------------------
(* Children *)

TextOf(b) == [k \in DOMAIN b.sentences |-> <<b.id, k>>]
TextOfAll(blocks) == FlattenSeq([i \in DOMAIN blocks |-> TextOf(blocks[i])])

\* round(a / c), halves to the even number.
RoundedShare(a, c) ==
  LET q == a \div c
      rest == 2 * (a % c)
  IN  IF rest > c \/ (rest = c /\ q % 2 = 1) THEN q + 1 ELSE q

\* The length of some sentences of a block, and what they get of its tokens by length.
CharsOf(b, s) == Summed([i \in DOMAIN s |-> b.sentences[s[i]]])

ShareOf(b, s) ==
  LET total == CharsOf(b, [k \in DOMAIN b.sentences |-> k])
  IN  RoundedShare(b.tokens * CharsOf(b, s), IF total = 0 THEN 1 ELSE total)

IntoPart(b, parts, k) ==
  IF parts = <<>> \/ ShareOf(b, Append(Last(parts), k)) >= child_max_tokens
  THEN Append(parts, <<k>>)
  ELSE [parts EXCEPT ![Len(parts)] = Append(@, k)]

\* A paragraph beyond the limit, cut at sentences; its tokens are shared out by length.
split_large_paragraph(b) ==
  LET parts[n \in 0..Len(b.sentences)] == IF n = 0 THEN <<>> ELSE IntoPart(b, parts[n - 1], n)
      cut == parts[Len(b.sentences)]
  IN  [g \in DOMAIN cut |->
         [text |-> [i \in DOMAIN cut[g] |-> <<b.id, cut[g][i]>>], tokens |-> ShareOf(b, cut[g])]]

\* What a child repeats of the one before it.
overlap_suffix(children) ==
  IF children = <<>> \/ overlap_tokens = 0 THEN <<>>
  ELSE LET text == Last(children).overlap \o Last(children).own
       IN  SubSeq(text, Max({1, Len(text) - overlap_tokens + 1}), Len(text))

\* build: the text of a child is its overlap and then its own.
AppendChild(children, blocks, text, tokens) ==
  LET overlap == overlap_suffix(children)
  IN  Append(children, [child_order |-> Len(children), blocks |-> blocks, overlap |-> overlap, own |-> text,
                        token_count |-> IF overlap = <<>> THEN tokens ELSE tokens + overlap_tokens])

CloseChild(c) ==
  IF c.current = <<>> THEN c
  ELSE [c EXCEPT !.children = AppendChild(@, c.current, TextOfAll(c.current), TokensIn(c.current)),
                 !.current = <<>>]

LargeChildren(children, b) ==
  LET parts == IF b.block_type \in ATOMIC_TYPES THEN <<[text |-> TextOf(b), tokens |-> b.tokens]>>
               ELSE split_large_paragraph(b)
      done[n \in 0..Len(parts)] ==
        IF n = 0 THEN children ELSE AppendChild(done[n - 1], <<b>>, parts[n].text, parts[n].tokens)
  IN  done[Len(parts)]

\* Fault: the limit is looked at one block too late.
TakeBlock_Fault(c, b) ==
  LET d == IF TokensIn(c.current) > child_max_tokens THEN CloseChild(c) ELSE c
  IN  IF b.tokens > child_max_tokens THEN [CloseChild(d) EXCEPT !.children = LargeChildren(@, b)]
      ELSE [d EXCEPT !.current = Append(@, b)]

TakeBlock(c, b) ==
  LET d == IF TokensIn(c.current) + b.tokens > child_max_tokens THEN CloseChild(c) ELSE c
  IN  IF b.tokens > child_max_tokens THEN [d EXCEPT !.children = LargeChildren(@, b)]
      ELSE [d EXCEPT !.current = Append(@, b)]

chunk_children(parent) ==
  LET taken[n \in 0..Len(parent.blocks)] ==
        IF n = 0 THEN [children |-> <<>>, current |-> <<>>] ELSE TakeBlock(taken[n - 1], parent.blocks[n])
  IN  CloseChild(taken[Len(parent.blocks)]).children

create_child_chunks(parents) == [p \in DOMAIN parents |-> chunk_children(parents[p])]

-----------------------------------------------------------------------------
(* One document after the other functions, in the order their arguments ask for. *)

Nothing == [step |-> "none"]

ChunkInit == document = <<>> /\ built = Nothing

Receive ==
  /\ document = <<>>
  /\ document' \in Documents
  /\ UNCHANGED built

BuildTree ==
  /\ document # <<>> /\ built.step = "none"
  /\ built' = [step |-> "tree", tree |-> build_document_tree(document)]
  /\ UNCHANGED document

CreateParents ==
  /\ built.step = "tree"
  /\ built' = [step |-> "parents", parents |-> create_parent_chunks(built.tree)]
  /\ UNCHANGED document

CreateChildren ==
  /\ built.step = "parents"
  /\ built' = [step |-> "children", parents |-> built.parents, children |-> create_child_chunks(built.parents)]
  /\ UNCHANGED document

ChunkNext == Receive \/ BuildTree \/ CreateParents \/ CreateChildren
ChunkSpec == ChunkInit /\ [][ChunkNext]_chunkVars

-----------------------------------------------------------------------------
(* Properties *)

InBody(b) == b.block_type \notin HeadingType \union {"HEADER_FOOTER"}

\* The headings a block stands under, by their places: those before it that no heading of
\* their level or above follows, still before it.
HeadingsOver(ordered, place) ==
  {i \in 1..place - 1 :
     /\ ordered[i].block_type \in HeadingType
     /\ \A j \in i + 1..place - 1 : ordered[j].block_type \in HeadingType => ordered[j].level > ordered[i].level}

\* Whether a path is where a block belongs: the titles of those headings, from the first.
FiledUnder(ordered, path, b) ==
  LET over == HeadingsOver(ordered, CHOOSE i \in DOMAIN ordered : ordered[i] = b)
  IN  IF b.block_type = "REFERENCE" THEN path = <<"references">>
      ELSE IF over = {} /\ b.block_type \notin ATOMIC_TYPES THEN path = <<"virtual", b.page>>
      ELSE \E heads \in [1..Cardinality(over) -> over] :
             /\ \A k, l \in DOMAIN heads : k < l => heads[k] < heads[l]
             /\ path = [k \in DOMAIN heads |-> ordered[heads[k]].title]

\* Every block of the body goes to one parent, which stands under the headings of the
\* block and covers its page, and its sentences are in the children of that parent once
\* each and in order, in children that name it; nothing else is indexed
\* (build_document_tree, create_parent_chunks, create_child_chunks).  The headings are
\* those the document has: no node stands for a level that it skips, of which see
\* SkippedLevelsAreFilled.
EveryBlockIsIndexed ==
  built.step = "children" =>
    LET parents == built.parents
        ordered == Ordered(document)
        Own(p) == FlattenSeq([i \in DOMAIN built.children[p] |-> built.children[p][i].own])
    IN  /\ \A b \in ToSet(document) :
             Cardinality({p \in DOMAIN parents : b \in ToSet(parents[p].blocks)}) = IF InBody(b) THEN 1 ELSE 0
        /\ \A p \in DOMAIN parents :
             /\ Own(p) = TextOfAll(parents[p].blocks)
             /\ \A b \in ToSet(parents[p].blocks) :
                  /\ FiledUnder(ordered, parents[p].structure_path, b)
                  /\ b.page \in parents[p].page_from..parents[p].page_to
             /\ \A i \in DOMAIN built.children[p] :
                  LET child == built.children[p][i]
                  IN  {piece[1] : piece \in ToSet(child.own)} = {b.id : b \in ToSet(child.blocks)}

\* A parent exceeds its limit only when it cannot be divided, and so does a child, but
\* for the overlap that is added to it (split_groups, _chunk_children, build).
ChunksAreBounded ==
  built.step = "children" =>
    \A p \in DOMAIN built.parents :
      LET parent == built.parents[p]
          Atomic(blocks) == \A b \in ToSet(blocks) : b.block_type \in ATOMIC_TYPES
      IN  /\ parent.token_count <= parent_max_tokens \/ Len(parent.blocks) = 1 \/ Atomic(parent.blocks)
          /\ \A i \in DOMAIN built.children[p] :
               LET child == built.children[p][i]
                   added == IF child.overlap = <<>> THEN 0 ELSE overlap_tokens
               IN  \/ child.token_count <= child_max_tokens + added
                   \/ Len(child.own) = 1
                   \/ Len(child.blocks) = 1 /\ Atomic(child.blocks)

\* The tree has a section for every level: where the headings of a document skip one,
\* 异常跳级补逻辑节点并记录 Warning (a logical node is added, and a warning recorded), says
\* the docstring of build_document_tree, chunking.py:308.  Sections are listed in the order
\* of a walk, and a section is in the last one before it that is open.
SkippedLevelsAreFilled ==
  built.step = "tree" =>
    LET Sections == {n \in DOMAIN built.tree : built.tree[n].kind = "SECTION"}
        Inside(n) == {m \in Sections : m < n /\ built.tree[m].structure_path = Front(built.tree[n].structure_path)}
    IN  \A n \in Sections :
          Inside(n) # {} => built.tree[n].heading_level <= built.tree[Max(Inside(n))].heading_level + 1
=============================================================================
