---------------------------- MODULE ContentSync ----------------------------
(***************************************************************************)
(* The command cmd/sync: run reads every source repository and checks what *)
(* it finds, then writeOutput rebuilds the content tree that go build      *)
(* embeds.  The command may be killed, or fail on the file system, at any  *)
(* point, and is run again, on whatever the repositories then hold.        *)
(*                                                                         *)
(* A file of the tree is its path and a text that says which version of    *)
(* which page or snippet it holds.  What a repository holds is given: the  *)
(* topics that Snippets extracts, or an error, and its Markdown files.     *)
(* The names that are compared, of files and of projects, are numbers in   *)
(* their order.                                                            *)
(***************************************************************************)
EXTENDS Integers, Sequences, FiniteSets, SequencesExt

CONSTANTS
    Inputs,     \* what sources.json and its repositories may hold: sequences of
                \* [lang, topics, projects, files]: the topics in the order of
                \* the files, or Unreadable; projects of [slug, dir], dir its
                \* docs directory; Markdown files of [file, slug, dirs], file
                \* the full name and dirs the directories it lies below
    Unreadable, \* a repository without the ref, with a malformed marker or page
    NoManifest, \* manifest.json is missing, or was cut short
    Torn,       \* the text of a file that was cut short
    MaxRuns     \* how often the command is run (bound)

ASSUME RunsAssumption == MaxRuns \in Nat /\ Inputs # {}

Sources == UNION {Range(in) : in \in Inputs}

\* Lists are lists; a repository has finitely many files, of different names.
ASSUME InputsAssumption ==
    /\ \A in \in Inputs : in \in Seq(Sources)
    /\ \A s \in Sources :
        /\ s.topics # Unreadable => s.topics \in Seq(Range(s.topics))
        /\ s.projects \in Seq(Range(s.projects))
        /\ \A i \in DOMAIN s.projects : s.projects[i].slug \in Int
        /\ IsFiniteSet(s.files)
        /\ \A f \in s.files : f.file \in Int
        /\ \A f, g \in s.files : f.file = g.file => f = g

\* No file is cut short at a text that is whole.
ASSUME TornAssumption == Torn \notin (Nat \X Nat) \cup (Nat \X Nat \X Int)

VARIABLES
    pc,       \* where the command is
    input,    \* what the sources hold during this run
    version,  \* the number of this run, which its texts carry
    k,        \* the source run's loop is at
    variants, \* seenVariant: the <<topic, lang>> pairs seen
    slugs,    \* seenProject: the project slugs seen
    files,    \* snippetFiles and docFiles: what is to be written
    listed,   \* the manifest under construction: projects with their docs
    tree,     \* the files under content/examples and content/docs
    manifest, \* content/manifest.json
    before    \* history: tree and manifest as this run found them

memory == <<k, variants, slugs, files, listed>>
disk == <<tree, manifest>>
vars == <<pc, input, version, memory, disk, before>>

Init ==
    /\ pc = "idle" /\ version = 0
    /\ input \in Inputs
    /\ k = 1 /\ variants = {} /\ slugs = {} /\ files = {} /\ listed = <<>>
    /\ tree = {} /\ manifest = NoManifest
    /\ before = disk

-----------------------------------------------------------------------------
(* run: read and check *)

Ended == {"idle", "done", "refused", "killed"}

\* Mutant: the tree is cleared before anything was read.
StartClears ==
    /\ pc \in Ended /\ version < MaxRuns
    /\ input' \in Inputs
    /\ pc' = "reading" /\ version' = version + 1
    /\ k' = 1 /\ variants' = {} /\ slugs' = {} /\ files' = {} /\ listed' = <<>>
    /\ before' = disk
    /\ tree' = {} /\ UNCHANGED manifest

\* The command is run, on what the sources hold by now.
Start ==
    /\ pc \in Ended /\ version < MaxRuns
    /\ input' \in Inputs
    /\ pc' = "reading" /\ version' = version + 1
    /\ k' = 1 /\ variants' = {} /\ slugs' = {} /\ files' = {} /\ listed' = <<>>
    /\ before' = disk
    /\ UNCHANGED disk

Source == input[k]
Topics == Range(Source.topics)

SnippetFile(topic) ==
    [path |-> <<"examples", topic, Source.lang>>, text |-> <<version, k>>]
DocFile(project, page) ==
    [path |-> <<"docs", project.slug, page.slug>>, text |-> <<version, k, page.file>>]

\* The pages of project p: every file below its directory, which may be a page of
\* another project too.
Docs(source, p) ==
    LET project == source.projects[p] IN
    {[project |-> project.slug, file |-> f.file, slug |-> f.slug] :
        f \in {g \in source.files : project.dir \in g.dirs}}

\* The pages of all projects, collected in one list.
Pages(source) == UNION {Docs(source, p) : p \in DOMAIN source.projects}

\* A set sorted by a comparison: the nth element has n - 1 elements before it.
Sorted(S, less) ==
    [n \in 1..Cardinality(S) |->
        CHOOSE d \in S : Cardinality({e \in S : <<e, d>> \in less}) = n - 1]

\* Mutant: the pages of a project are sorted by slug.
BeforeBySlug(d, e) ==
    \/ d.project < e.project
    \/ d.project = e.project /\ d.slug < e.slug
    \/ d.project = e.project /\ d.slug = e.slug /\ d.file < e.file
\* The comparison of two pages: by project, then by file.
Before(d, e) ==
    \/ d.project < e.project
    \/ d.project = e.project /\ d.file < e.file

PageOrder(source) == {x \in Pages(source) \X Pages(source) : Before(x[1], x[2])}

\* The order of the places in a list.
Ascending(places) == {x \in places \X places : x[1] < x[2]}

\* The loop over the sorted pages, which passes over those of other projects.
Nav(source, p) ==
    LET pages == Sorted(Pages(source), PageOrder(source))
        own == {n \in DOMAIN pages : pages[n].project = source.projects[p].slug}
        places == Sorted(own, Ascending(own))
    IN  [i \in DOMAIN places |-> pages[places[i]]]

\* Mutant: a topic is looked up in this repository only.
VariantTakenHere(topic) == FALSE
VariantTaken(topic) == <<topic, Source.lang>> \in variants

\* Numbered file names strip to one slug.
DocsClash(docs) == \E i, j \in DOMAIN docs : i # j /\ docs[i].slug = docs[j].slug

\* The source clashes with an earlier one or with itself.
Clash ==
    \/ \E t \in Topics : VariantTaken(t)
    \/ ~IsInjective(Source.topics)
    \/ \E i \in DOMAIN Source.projects :
        \/ Source.projects[i].slug \in slugs
        \/ \E j \in DOMAIN Source.projects : j < i /\ Source.projects[j].slug = Source.projects[i].slug
        \/ DocsClash(Nav(Source, i))

Readable == Source.topics # Unreadable

\* What the manifest says of a source.
Entry(source) ==
    [lang |-> source.lang, topics |-> Range(source.topics),
     projects |-> [p \in DOMAIN source.projects |->
        [slug |-> source.projects[p].slug, docs |-> Nav(source, p)]]]

\* A manifest that was listed is told from one that is missing.
ASSUME ManifestAssumption ==
    NoManifest \notin Seq({Entry(s) : s \in {t \in Sources : t.topics # Unreadable}})

\* The maps from path to text, and the file system, keep one text for a path.
Put(old, new) == {f \in old : \A g \in new : g.path # f.path} \cup new

\* One source read without complaint.
ReadSource ==
    /\ pc = "reading" /\ k <= Len(input) /\ Readable /\ ~Clash
    /\ variants' = variants \cup {<<t, Source.lang>> : t \in Topics}
    /\ slugs' = slugs \cup {Source.projects[i].slug : i \in DOMAIN Source.projects}
    /\ files' = Put(files,
         {SnippetFile(t) : t \in Topics}
           \cup UNION {{DocFile(Source.projects[i], d) : d \in Range(Nav(Source, i))} :
                          i \in DOMAIN Source.projects})
    /\ listed' = Append(listed, Entry(Source))
    /\ k' = k + 1
    /\ UNCHANGED <<pc, input, version, disk, before>>

\* The first error ends the command, before anything is written.
Refuse ==
    /\ pc = "reading"
    /\ input = <<>> \/ (k <= Len(input) /\ (Readable => Clash))
    /\ pc' = "refused"
    /\ UNCHANGED <<input, version, memory, disk, before>>

-----------------------------------------------------------------------------
(* writeOutput *)

In(dir) == {f \in tree : f.path[1] = dir}

\* Everything was read: the rebuild begins.
BeginOutput ==
    /\ pc = "reading" /\ input # <<>> /\ k > Len(input)
    /\ pc' = "clear examples"
    /\ UNCHANGED <<input, version, memory, disk, before>>

\* RemoveAll deletes the files of a directory one by one.
RemoveFile(dir, label) ==
    /\ pc = label
    /\ \E f \in In(dir) : tree' = tree \ {f}
    /\ UNCHANGED <<pc, input, version, memory, manifest, before>>

\* Mutant: docs is not cleared.
AfterExamplesWrite == "write snippets"
AfterExamples == "clear docs"

\* The directory is empty but for .gitkeep.
Cleared(dir, label, next) ==
    /\ pc = label
    /\ In(dir) = {}
    /\ pc' = next
    /\ UNCHANGED <<input, version, memory, disk, before>>

Pending(dir) == {f \in files \ tree : f.path[1] = dir}

\* The files of a map are written in any order.
WriteFile(dir, label) ==
    /\ pc = label
    /\ \E f \in Pending(dir) : tree' = Put(tree, {f})
    /\ UNCHANGED <<pc, input, version, memory, manifest, before>>

AllWritten(dir, label, next) ==
    /\ pc = label
    /\ Pending(dir) = {}
    /\ pc' = next
    /\ UNCHANGED <<input, version, memory, disk, before>>

\* Last of all, the manifest.
WriteManifest ==
    /\ pc = "write manifest"
    /\ manifest' = listed
    /\ pc' = "done"
    /\ UNCHANGED <<input, version, memory, tree, before>>

\* A kill or a file system error: the file that was being written is cut short.
Kill ==
    /\ pc \notin Ended
    /\ \/ UNCHANGED disk
       \/ /\ pc \in {"write snippets", "write docs"}
          /\ \E f \in Pending(IF pc = "write docs" THEN "docs" ELSE "examples") :
                tree' = Put(tree, {[f EXCEPT !.text = Torn]})
          /\ UNCHANGED manifest
       \/ pc = "write manifest" /\ manifest' = NoManifest /\ UNCHANGED tree
    /\ pc' = "killed"
    /\ UNCHANGED <<input, version, memory, before>>

Output ==
    \/ BeginOutput
    \/ RemoveFile("examples", "clear examples")
    \/ Cleared("examples", "clear examples", AfterExamples)
    \/ RemoveFile("docs", "clear docs")
    \/ Cleared("docs", "clear docs", "write snippets")
    \/ WriteFile("examples", "write snippets")
    \/ AllWritten("examples", "write snippets", "write docs")
    \/ WriteFile("docs", "write docs")
    \/ AllWritten("docs", "write docs", "write manifest")
    \/ WriteManifest

\* The operator has run the command often enough.
Rest == pc \in Ended /\ version = MaxRuns /\ UNCHANGED vars

Command == ReadSource \/ Refuse \/ Output

Next == Start \/ Command \/ Kill \/ Rest

Spec == Init /\ [][Next]_vars

-----------------------------------------------------------------------------
(* What must hold *)

\* The paths a manifest names.
Paths(m) ==
    (UNION {{<<"examples", t, m[s].lang>> : t \in m[s].topics} : s \in DOMAIN m})
      \cup (UNION {UNION {{<<"docs", m[s].projects[p].slug, m[s].projects[p].docs[d].slug>> :
                             d \in DOMAIN m[s].projects[p].docs} :
                          p \in DOMAIN m[s].projects} : s \in DOMAIN m})

\* A run that ends well leaves, of whatever earlier and killed runs left, nothing:
\* the tree is the files its manifest names, whole and of this run.
TreeIsManifest ==
    pc = "done" =>
        /\ manifest # NoManifest
        /\ {f.path : f \in tree} = Paths(manifest)
        /\ \A f \in tree : f.text # Torn /\ f.text[1] = version

\* The topics and the pages that were found, each where it was found: the topic at
\* its place in a source, the page in its project of a source.
TopicsFound == UNION {{s} \X DOMAIN input[s].topics : s \in DOMAIN input}
PagesFound ==
    UNION {UNION {{<<s, p>>} \X Docs(input[s], p) : p \in DOMAIN input[s].projects} :
              s \in DOMAIN input}

\* Every file of the tree is one page or one snippet: no source overwrites what
\* another one wrote, and the docs of all projects have names of their own.
OneFileEach ==
    pc = "done" => Cardinality(tree) = Cardinality(TopicsFound) + Cardinality(PagesFound)

\* "Anything malformed fails the sync loudly": a run that is refused, or killed
\* before it had read all, left the content as it was.
RefusedChangesNothing == pc \in {"reading", "refused"} => disk = before

\* "Nav order is the docs-directory filename order", in the manifest of whichever
\* run was the last to write one.
FilesAscend ==
    manifest # NoManifest =>
        \A s \in DOMAIN manifest : \A p \in DOMAIN manifest[s].projects :
            LET docs == manifest[s].projects[p].docs IN
            \A i, j \in DOMAIN docs : i < j => docs[i].file < docs[j].file

\* The pages of a project in the manifest are the files below its directory, those
\* of no other project between them, and each of them opens its own text.
PagesOpen ==
    pc = "done" =>
        \A s \in DOMAIN input : \A p \in DOMAIN input[s].projects :
            LET project == input[s].projects[p]
                docs == manifest[s].projects[p].docs
            IN  /\ {docs[i].file : i \in DOMAIN docs}
                     = {f.file : f \in {g \in input[s].files : project.dir \in g.dirs}}
                /\ \A i \in DOMAIN docs :
                       [path |-> <<"docs", project.slug, docs[i].slug>>,
                        text |-> <<version, s, docs[i].file>>] \in tree

\* The navigation of a project is its directory: the files below it, in the order of
\* their names, every one leading to its own page, though the pages of all projects
\* of a source are sorted in one list and a directory may lie below another one.
NavIsDirectory == FilesAscend /\ PagesOpen
=============================================================================
