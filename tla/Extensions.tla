----------------------------- MODULE Extensions -----------------------------
(***************************************************************************)
(* The registry of custom tag extensions (extension.rs) and what the       *)
(* parser makes of an extension tag under a given registry                 *)
(* (parser/template.rs).  Pure operators: the registry is a field of an    *)
(* Environment, the modules that extend this one keep it in a variable.    *)
(*                                                                         *)
(* Abstraction.  A tag is a model value.  A template source is a record    *)
(* with the tag keyword it opens, if any, and the one that follows its     *)
(* body, if any: what decides which AST the parser returns.  Names the     *)
(* parser reserves for built-in tags are in the constant Reserved.         *)
(***************************************************************************)
EXTENDS Integers, Sequences

CONSTANTS
    ExtNames,   \* names an extension may be registered under
    Tags,       \* tag keywords, opening and closing alike
    Reserved,   \* the keywords of built-in tags
    NoTag,      \* "no such tag", Option::None of an end tag
    NoMeta      \* a keyword that opens no extension tag

ASSUME TagConstants == /\ Reserved \subseteq Tags
                       /\ NoTag \notin Tags
                       /\ NoMeta \notin [owner : ExtNames, end : Tags \cup {NoTag}]

(* ExtensionTagMeta: the owner of an opening tag and its closing keyword.  *)
Meta == [owner : ExtNames, end : Tags \cup {NoTag}]

(* extension_tags, extension_closing_tag_names and the keys of             *)
(* custom_extensions.                                                      *)
Registry == [tags : [Tags -> Meta \cup {NoMeta}],
             closing : SUBSET Tags,
             handlers : SUBSET ExtNames]

EmptyRegistry == [tags |-> [t \in Tags |-> NoMeta],
                  closing |-> {},
                  handlers |-> {}]

OpeningTags(tags) == {t \in Tags : tags[t] # NoMeta}

(* rebuild_extension_closing_tags: the end tags of the tags that stay.     *)
ClosingTags(tags) == {tags[t].end : t \in OpeningTags(tags)} \ {NoTag}

(* retain(|_, v| v.extension_name != name).                                *)
TagsWithout(tags, x) ==
    [t \in Tags |-> IF tags[t] # NoMeta /\ tags[t].owner = x
                    THEN NoMeta
                    ELSE tags[t]]

(* A tag specification is a pair of an opening tag and its end tag.        *)
TagSpec == [tag : Tags, end : Tags \cup {NoTag}]

SpecTags(specs) == {specs[i].tag : i \in DOMAIN specs}

(* The checks of register_extension_inner that return before any change.   *)
Accepts(reg, x, specs) ==
    /\ specs # << >>
    /\ \A i, j \in DOMAIN specs : specs[i].tag = specs[j].tag => i = j
    /\ \A i \in DOMAIN specs : {specs[i].tag, specs[i].end} \cap Reserved = {}
    /\ \A t \in SpecTags(specs) \cap OpeningTags(reg.tags) :
          reg.tags[t].owner = x

TagsWith(tags, x, specs) ==
    [t \in Tags |->
        IF \E i \in DOMAIN specs : specs[i].tag = t
        THEN [owner |-> x,
              end |-> specs[CHOOSE i \in DOMAIN specs : specs[i].tag = t].end]
        ELSE TagsWithout(tags, x)[t]]

(* register_extension_inner once its checks have passed: the tags the      *)
(* extension had before go, whatever the new specification says.           *)
Register(reg, x, specs) ==
    LET tags == TagsWith(reg.tags, x, specs)
    IN  [tags |-> tags,
         closing |-> ClosingTags(tags),
         handlers |-> reg.handlers \cup {x}]

(* Mutant of Unregister: the handler goes, the tags stay.                      *)
RemoveHandlerOnly(reg, x) == [reg EXCEPT !.handlers = @ \ {x}]

(* Mutant of Unregister: the closing names are not rebuilt.                    *)
RemoveKeepingClosing(reg, x) ==
    [tags |-> TagsWithout(reg.tags, x),
     closing |-> reg.closing,
     handlers |-> reg.handlers \ {x}]

(* remove_extension_inner.                                                 *)
Unregister(reg, x) ==
    LET tags == TagsWithout(reg.tags, x)
    IN  [tags |-> tags,
         closing |-> ClosingTags(tags),
         handlers |-> reg.handlers \ {x}]

-----------------------------------------------------------------------------
(* A source: plain text, a lone extension tag, or an extension tag, a body *)
(* and a second tag.                                                       *)
SourceShape == [open : Tags \cup {NoTag}, close : Tags \cup {NoTag}]

(* parse_node's default arm for a tag keyword that no built-in claims:     *)
(* closing names win over opening tags.                                    *)
OpensExtension(view, t) == t \notin view.closing /\ view.tags[t] # NoMeta

(* The tag that follows the body either is the end tag parse_until_tags    *)
(* looks for, or has to stand alone after a tag that takes no body.        *)
Parses(view, shape) ==
    \/ shape.open = NoTag
    \/ /\ OpensExtension(view, shape.open)
       /\ \/ shape.close = view.tags[shape.open].end
          \/ /\ view.tags[shape.open].end = NoTag
             /\ OpensExtension(view, shape.close)
             /\ view.tags[shape.close].end = NoTag

(* extension_name of the Node::ExtensionTag nodes, by tag keyword.         *)
OwnersIn(view, shape) ==
    [t \in {shape.open, shape.close} \cap OpeningTags(view.tags) |->
        view.tags[t].owner]

-----------------------------------------------------------------------------
(* The three maps of the registry agree: a closing name is some registered *)
(* tag's end tag, and the extensions that own a tag are exactly those that *)
(* have a handler.  extension.rs mutates them one after the other, through *)
(* replacement, removal and rejected registrations.                        *)
RegistryOK(reg) ==
    /\ reg.closing = ClosingTags(reg.tags)
    /\ reg.handlers = {reg.tags[t].owner : t \in OpeningTags(reg.tags)}
    /\ (OpeningTags(reg.tags) \cup reg.closing) \cap Reserved = {}
=============================================================================
