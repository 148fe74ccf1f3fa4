------------------------------ MODULE MCRegistry ------------------------------
(***************************************************************************)
(* Three layers of small registries, in which definitions hide, disable    *)
(* and stand in for one another.                                           *)
(***************************************************************************)
EXTENDS Registry

File_(command, variant, holds, aliases) ==
  [at |-> <<command, variant>>, holds |-> holds, aliases |-> aliases]

Dir(files, off) == [is |-> "there", files |-> files, off |-> off]

MCRegistries == {
  [is |-> "absent", files |-> {}, off |-> {}],
  [is |-> "refused", files |-> {}, off |-> {}],
  Dir({}, {<<"ls", "">>}),
  Dir({File_("df", "a", "refused", {"gls"}), File_("ls", "a", "garbage", {})}, {}),
  Dir({File_("ls", "a", "definition", {})}, {<<"ls", "a">>, <<"df", "b">>}),
  Dir({File_("df", "a", "definition", {"ls"}), File_("ls", "a", "definition", {})}, {}),
  Dir({File_("ls", "a", "definition", {"gls"}), File_("ls", "b", "refused", {}), File_("df", "a", "garbage", {"gls"})}, {}),
  Dir({File_("df", "b", "definition", {"gls"}), File_("ls", "b", "definition", {}), File_("df", "a", "refused", {"gls"})},
      {<<"df", "a">>}) }

MCNamesAsked == {<<>>, <<"ls">>, <<"gls">>, <<"gls", "df">>}
=============================================================================
