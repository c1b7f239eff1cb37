SPECIFICATION FairSpec
CONSTANTS
    NServers = 2
    Guests = {"ga"}
    Site <- ClusterSite
    Home <- ClusterHome
    Clusters = {"cluster"}
    MaxChanges = 1
    MaxDeploys = 1
    MaxOutages = 1
    MaxCrashes = 1
PROPERTIES AddressFollowsRow OfflineKept LossHasCause CacheConverges
