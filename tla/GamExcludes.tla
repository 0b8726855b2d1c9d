----------------------------- MODULE GamExcludes -----------------------------
(***************************************************************************)
(* The exclude list of the daemon (src/server/gam_excludes.c) and the     *)
(* poll / notify lines of the configuration files that fill it            *)
(* (src/server/gam_conf.c).  gam_exclude_check decides whether a path is  *)
(* kept away from the kernel backend (TRUE: poll it).                     *)
(*                                                                         *)
(* Glob matching is GLib's g_pattern_match; a pattern is abstracted to    *)
(* the set of paths it matches.  A word of a poll/notify line is          *)
(* abstracted to how gam_conf_read_internal treats its first character:   *)
(* "empty", "comment" ('#'), "home" ('~', the pattern after expansion),   *)
(* "abs" ('/') or "rel" (anything else), with the pattern it denotes.     *)
(***************************************************************************)
EXTENDS Integers, Sequences, SequencesExt

CONSTANT StaticPatterns   \* static_excludes[] (HAVE_LINUX), in order

\* gam_exclude_add: the pattern is appended with its decision.
ExcludeAdd(list, pat, ex) == Append(list, [pat |-> pat, exclude |-> ex])

\* gam_exclude_check_all / gam_exclude_check: the first matching pattern
\* decides, whether it excludes or includes; no match is FALSE.
ExcludeCheck(list, path) ==
    LET i == SelectInSeq(list, LAMBDA x : path \in x.pat)
    IN  i # 0 /\ list[i].exclude = 1

\* gam_exclude_init: the static patterns are added, excluding.
ExcludeInit(list) ==
    FoldLeft(LAMBDA acc, p : ExcludeAdd(acc, p, 1), list, StaticPatterns)

\* The word loop of a poll/notify line: empty and relative words are
\* skipped, a comment word ends the line, a '~' or '/' word is added.
LineWords(w) ==
    LET c == SelectInSeq(w, LAMBDA x : x.kind = "comment")
        upto == IF c = 0 THEN w ELSE SubSeq(w, 1, c - 1)
    IN  SelectSeq(upto, LAMBDA x : x.kind \in {"home", "abs"})

\* The poll/notify branch of gam_conf_read_internal for one line.
ReadExcludeLine(list, l) ==
    IF l.cmd \in {"poll", "notify"}
    THEN FoldLeft(LAMBDA acc, x : ExcludeAdd(acc, x.pat, IF l.cmd = "poll" THEN 1 ELSE 0),
                  list, LineWords(l.words))
    ELSE list

\* gam_conf_read's exclude patterns: gaminrc, ~/.gaminrc, then
\* mandatory_gaminrc, line by line.
ConfExcludes(global, user, mandatory) ==
    FoldLeft(ReadExcludeLine, <<>>, global \o user \o mandatory)

\* Mutant: the static patterns are installed before the configuration.
InitExcludesStaticFirst(global, user, mandatory) ==
    FoldLeft(ReadExcludeLine, ExcludeInit(<<>>), global \o user \o mandatory)

\* gam_init_subscriptions: gam_conf_read, then gam_exclude_init.
InitExcludes(global, user, mandatory) ==
    ExcludeInit(ConfExcludes(global, user, mandatory))
================================================================================
