SPECIFICATION FairSpec
CONSTANTS
    Ident = {"0", "1", "A", "B"}
    Plain = {"t1", "t2", "t3", "t4", "t5", "t6", "t7", "t8", "t9", "t10", "t11", "t12",
             "t13", "t14", "t15", "t16", "t17", "t18", "t19", "t20", "t21", "t22", "t23",
             "t24", "int", "h"}
    Wrap = 65536
    NestMod = 8
    FileName = {"main", "h"}
    Root = "main"
    Corpus <- CorpusNested
INVARIANT OutputIsPromised
