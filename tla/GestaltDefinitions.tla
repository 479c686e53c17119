-------------------------- MODULE GestaltDefinitions --------------------------
(***************************************************************************)
(* The definitions of gestalts (ruby/gestalt/*definitions.rb), in the      *)
(* order in which ruby/gestalt.rb requires them.  File rules any of which  *)
(* is enough are one rule here, named for the gestalt; where the code      *)
(* needs several of them, or another number, each has its name.            *)
(***************************************************************************)
EXTENDS Integers, Sequences

File(id) == [op |-> "file", id |-> id, min |-> 1]
AtLeast(min, id) == [op |-> "file", id |-> id, min |-> min]
Language(l, percent) == [op |-> "language", language |-> l, percent |-> percent]
Gestalt(name) == [op |-> "gestalt", gestalt |-> name]
And(rules) == [op |-> "and", rules |-> rules]
Or(rules) == [op |-> "or", rules |-> rules]
Not(rule) == [op |-> "not", rules |-> <<rule>>]

\* A definition: its top-level rule is an OrRule.
Define(name, rules) == [gestalt |-> name, rule |-> Or(rules)]
Files(name) == Define(name, <<File(name)>>)
Written(name, percent) == Define(name, <<Language(name, percent)>>)
\* What is known by its files once the platform it runs on is.
On(platform, name) == Define(name, <<And(<<Gestalt(platform), File(name)>>)>>)

Gestalts(names) == [i \in DOMAIN names |-> Gestalt(names[i])]

Platforms ==
 << Define("posix", <<File("posix"), Language("autoconf", 0)>>),
    Define("win32", <<File("win32_headers"), AtLeast(2, "win32_keywords")>>),
    Written("visualbasic", 5), Written("ruby", 15), On("ruby", "rails"),
    Written("java", 15), Written("javascript", 20),
    Files("jquery"), Files("mootools"), Files("prototype"), Files("yui"), Files("dojo"),
    Define("flash", <<Or(<<Language("actionscript", 1),
                           And(<<Gestalt("java"), File("flash_import")>>)>>)>>),
    Define("flex", <<Or(<<Language("mxml", 1),
                          And(<<Gestalt("java"), File("mx_import")>>)>>)>>),
    Files("xwindows"), Files("mac"), Written("php", 15), Files("wxwidgets"),
    On("php", "zendframework"), On("php", "symfony"), On("php", "pear"),
    On("php", "moodle"), Written("sql", 0), Files("mysql"), Files("postgresql"),
    Written("python", 15), Written("perl", 20),
    Define("scripting", Gestalts(<<"javascript", "perl", "php", "python", "ruby">>)),
    On("php", "cakephp"), Files("kde"), Files("gtk"),
    Define("drupal", <<And(<<Gestalt("php"),
                             Or(<<File("drupal_calls"), AtLeast(3, "drupal_name")>>)>>)>>),
    Define("msdos", <<AtLeast(2, "msdos")>>), Files("eclipseplatform") >>

Tools == <<Files("visualstudio"), Files("eclipse"), Files("netbeans")>>

Devices ==
 << Define("arm", <<File("arm"), Gestalt("arm_neon")>>), Files("arm_neon"),
    Files("sse3_atom_flag"), Files("xl_flag"),
    Define("atom", Gestalts(<<"sse3_atom_flag", "xl_flag">>)),
    Files("intel_compiler"), Files("gcc"),
    Files("clutter"), Files("moblin_misc"), Files("nbtk"),
    Define("moblin", Gestalts(<<"clutter", "moblin_misc", "nbtk">>)),
    Files("android"), Files("iphone"),
    Define("hildon", <<File("hildon"), And(<<File("import_hildon"), File("import_gtk")>>)>>),
    Define("maemo", Gestalts(<<"hildon">>)),
    Define("mid_combined", Gestalts(<<"clutter", "nbtk", "moblin", "maemo", "android",
                                      "iphone">>)),
    Files("windows_ce_incomplete"),
    Define("native_code", <<Language("c", 5), Language("cpp", 5), Language("cncpp", 5),
                            Language("assembly", 5), Language("d", 5),
                            Language("fortran", 5), Language("haskell", 5),
                            Language("cobol", 5)>>) >>

DotNet ==
 << Define("dot_net", <<Or(<<Language("csharp", 10)>>
                           \o Gestalts(<<"asp_net", "wpf", "silverlight">>))>>),
    Files("asp_net"), Files("wpf"),
    Define("silverlight", <<Or(<<File("silverlight"),
                                 And(Gestalts(<<"asp_net", "wpf">>))>>)>>) >>

AppServers == <<"glassfish", "jboss", "weblogic", "jonas", "websphere", "tomcat">>

Ejb31 == On("java", "ejb3.1")
EjbPlus == Define("ejb3+", <<And(<<Gestalt("java"),
                                   Or(<<Gestalt("ejb3.1"), File("ejb3+")>>)>>)>>)
Ejb30 == Define("ejb3.0", <<And(<<Gestalt("ejb3+"), Not(Gestalt("ejb3.1"))>>)>>)

\* Ejb, in another order.
EjbReordered == <<EjbPlus, Ejb30, Ejb31>>

\* "Do not reorder!"
Ejb == <<Ejb31, EjbPlus, Ejb30>>

Java ==
    [i \in DOMAIN AppServers |-> On("java", AppServers[i])]
    \o <<Define("appserver", <<Or(Gestalts(AppServers))>>), On("java", "ejb2")>>
    \o Ejb
    \o << On("java", "servlet"), On("java", "struts"), On("java", "springframework"),
          On("java", "jsf"), On("java", "googlewebtoolkit"), On("java", "hibernate"),
          On("java", "jpa"), On("java", "toplink"), On("java", "castor"),
          On("java", "db4o"), On("java", "openesb"), On("java", "muleesb"),
          On("java", "servicemix"), On("java", "jbossesb"), On("java", "openesb"),
          On("java", "opensso"), On("java", "maven") >>

Jasper ==
 << Define("jaspersoft", <<Or(Gestalts(<<"jaspersoft_keyword", "jasper_reports",
                                         "jasper_server", "jasper_ireport",
                                         "jasper_intelligence">>))>>),
    Files("jaspersoft_keyword"),
    Define("jasper_reports", <<Or(Gestalts(<<"jasper_reports_keyword",
                                             "jasper_reports_java">>))>>),
    Files("jasper_reports_keyword"), Files("jasper_reports_java"),
    Define("jasper_server", <<Or(Gestalts(<<"jasper_server_keyword",
                                            "jasper_server_java">>))>>),
    Files("jasper_server_keyword"), Files("jasper_server_java"),
    Files("jasper_intelligence"),
    Define("jasper_ireport", <<And(<<File("jasper"), File("ireport")>>)>>) >>

AllDefinitions == Platforms \o Tools \o Devices \o DotNet \o Java \o Jasper
=============================================================================
