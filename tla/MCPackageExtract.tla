---------------------------- MODULE MCPackageExtract ----------------------------
(***************************************************************************)
(* Every archive of up to MaxHeaders headers: nested directories listed    *)
(* before, after or without their children, paths listed twice, symlinks   *)
(* and paths within them, unsigned and tampered files, and headers beyond  *)
(* the limits. Clients iterate over it or extract it into a directory that *)
(* is empty or holds a file, a directory or a symlink where the archive    *)
(* has something else.                                                     *)
(***************************************************************************)
EXTENDS PackageExtract

MCsha256(body) == <<"sha256", body>>

Header(path, type, body) == [path |-> path, type |-> type, body |-> body, size |-> Len(body)]

MCHeaders == {
  Header(<<"d">>, "directory", <<>>),
  Header(<<"d", "e", "">>, "directory", <<>>),
  Header(<<".">>, "directory", <<>>),
  Header(<<"d", "f">>, "regular", <<"one", "two">>),
  Header(<<"d", "f">>, "regular", <<"bad">>),
  Header(<<"d", "e", "k">>, "regular", <<"one">>),
  Header(<<"g">>, "regular", <<"three">>),
  [Header(<<"g">>, "regular", <<"three">>) EXCEPT !.size = 0],
  Header(<<"h", "">>, "regular", <<"four">>),
  Header(<<"d">>, "symlink", <<"x">>),
  Header(<<"d", "l">>, "symlink", <<"g">>),
  Header(<<"d", "l", "m">>, "regular", <<"five">>),
  Header(<<"..", "g">>, "regular", <<"three">>),
  Header(<<"n">>, "symlink", <<>>),
  Header(<<"o">>, "other", <<>>),
  Header(<<"p">>, "regular", <<"one", "two", "three">>)}

MCDigestMaps == {
  [path \in {<<"d", "f">>, <<"g">>} |->
     IF path = <<"g">> THEN MCsha256(<<"three">>) ELSE MCsha256(<<"one", "two">>)],
  [path \in {<<"d">>, <<"g">>} |->
     IF path = <<"g">> THEN MCsha256(<<"three">>) ELSE MCsha256(<<"x">>)]}

Old(type) == [type |-> type, body |-> <<>>, mode |-> "old", times |-> "old"]
MCInitialTargets == {
  [path \in {} |-> Old("regular")],
  [path \in {<<"d">>, <<"g">>} |-> IF path = <<"g">> THEN Old("regular") ELSE Old("directory")],
  [path \in {<<"d">>} |-> Old("symlink")],
  [path \in {<<"g">>, <<"g", "x">>} |-> IF path = <<"g">> THEN Old("directory") ELSE Old("regular")]}

MCOptionSets == {{}, {"KeepExistingFiles"}, {"SkipExistingFiles"}, {"NoOverwriteDirectories"}}
=============================================================================
