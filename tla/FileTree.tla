------------------------------ MODULE FileTree ------------------------------
(***************************************************************************)
(* The part of the target's file tree that the file actions touch, and the *)
(* system calls they make on it, one step each: what a death between two   *)
(* of them leaves behind is what the actions are written around.           *)
(* A file's content is the set of its lines.                               *)
(***************************************************************************)
EXTENDS Integers, Sequences, FiniteSets

VARIABLE tree               \* path -> what is there

Root == 0                   \* root's uid
File(content, private, owner) ==
    [kind |-> "file", content |-> content, private |-> private, owner |-> owner, to |-> ""]
Dir(owner) == [kind |-> "dir", content |-> {}, private |-> FALSE, owner |-> owner, to |-> ""]
Link(to) == [kind |-> "link", content |-> {}, private |-> FALSE, owner |-> Root, to |-> to]

IsLink(p) == p \in DOMAIN tree /\ tree[p].kind = "link"
Follow(p) == IF IsLink(p) THEN tree[p].to ELSE p

\* os.path.exists and open() follow a link; os.remove does not.
Exists(p) == p \in DOMAIN tree /\ Follow(p) \in DOMAIN tree
Read(p) == IF Exists(p) THEN tree[Follow(p)].content ELSE {}
Owner(p) == tree[Follow(p)].owner
Private(p) == tree[Follow(p)].private

Put(p, node) == [q \in DOMAIN tree \cup {p} |-> IF q = p THEN node ELSE tree[q]]
Without(paths) == [q \in DOMAIN tree \ paths |-> tree[q]]

Unlink(p) == tree' = IF Exists(p) THEN Without({p}) ELSE tree
Detach(p) == tree' = Without({p})
Mkdir(p) == tree' = IF p \in DOMAIN tree THEN tree ELSE Put(p, Dir(Root))
Chown(p, uid) == tree' = Put(Follow(p), [tree[Follow(p)] EXCEPT !.owner = uid])
Chmod(p) == tree' = Put(Follow(p), [tree[Follow(p)] EXCEPT !.private = TRUE])
Fill(p, content) == tree' = Put(Follow(p), [tree[Follow(p)] EXCEPT !.content = content])

\* O_CREAT's mode is for a new file, O_TRUNC empties one that was there.
Open(p, private) ==
    tree' = IF Exists(p) THEN Put(Follow(p), [tree[Follow(p)] EXCEPT !.content = {}])
            ELSE Put(Follow(p), File({}, private, Root))

-----------------------------------------------------------------------------
(* How a managed file is written *)

Call(do, path, arg) == [action |-> "", do |-> do, path |-> path, arg |-> arg]
When(condition, steps) == IF condition THEN steps ELSE <<>>

\* Mutant: the mode is put on after the content.
ModeLast(p, entry) ==
    When(IsLink(p), <<Call("detach", p, "")>>)
        \o <<Call("open", p, FALSE), Call("fill", p, entry.content)>>
        \o When(entry.private, <<Call("chmod", p, "")>>)

\* Mutant: a link is written through.
ThroughLinks(p, entry) ==
    <<Call("open", p, entry.private)>> \o When(entry.private, <<Call("chmod", p, "")>>)
        \o <<Call("fill", p, entry.content)>>

\* _write_content: a link is replaced, and a declared mode is on the
\* descriptor before any content reaches it.
WriteCalls(p, entry) ==
    When(IsLink(p), <<Call("detach", p, "")>>)
        \o <<Call("open", p, entry.private)>> \o When(entry.private, <<Call("chmod", p, "")>>)
        \o <<Call("fill", p, entry.content)>>
=============================================================================
