CONSTANTS
    n1 = n1
    n2 = n2
    n3 = n3
    c1 = c1
    c2 = c2
    a = a
    b = b
    SubEp = SubEp
    subcomp = subcomp
    listener = listener
    SubComp <- subcomp
    RpcListener <- listener
    ConfigFile <- ChainConfigFile
    Removable <- ChainRemovable
    Subscribe <- MCSubscribe
    Provide <- MCProvide
    AppMethods <- MCAppMethods
    Components <- MCComponents
    CompSinks <- MCCompSinks
    CompSources <- MCCompSources
    Nodes <- ChainNodes
    CompNode <- ChainCompNode
    Links <- ChainLinks
    InitStarted = {}
    InitComps = {}
    MaxConnects = 2
    MaxStarts = 3

SPECIFICATION NodeSpec
INVARIANT TypeOK
INVARIANT NoForeignRoutes
PROPERTY ConfiguredNodesAdvertise
CHECK_DEADLOCK FALSE
